---------------------------- MODULE Spec2Model ----------------------------
(***************************************************************************)
(* A model of the overkiz-client library: the session client (ApiClient /  *)
(* CloudApiClient), the execution tracker and event poller of              *)
(* OverkizClient, and the device-topology assembly (attachDevices).        *)
(*                                                                         *)
(* JavaScript runs one handler at a time.  An action of this module is one *)
(* such handler, from the event that starts it (an application call, an    *)
(* HTTP response, a timer) to its next await.  Time is kept by the         *)
(* remaining delay of every armed timer; Advance lets time pass but never  *)
(* past the earliest deadline, and a timer whose delay has run out fires   *)
(* before time passes again.                                               *)
(***************************************************************************)
EXTENDS Integers, Sequences, FiniteSets, TLC

(***************************************************************************)
(* Values shared by the parts.                                             *)
(***************************************************************************)
\* A timer that is not armed (setTimeout was not called, or it has fired).
NoTimer == -1

Max(S) == CHOOSE x \in S : \A y \in S : x >= y

RECURSIVE Pow2(_)
Pow2(n) == IF n <= 0 THEN 1 ELSE 2 * Pow2(n - 1)

(***************************************************************************)
(* The state of the parts.                                                 *)
(***************************************************************************)
\* Device topology.
VARIABLES
    setupData,        \* the flat device list the remote service returns
    devices,          \* Client.devices: deviceURL -> registered Device (its number in order of creation), 0 if none
    created,          \* the Device objects created so far
    topoPc,           \* "ready" before getDevices() has run, "done" after
    physicalDevices,  \* the list the last attachDevices returned (positions of setupData)
    sensors,          \* Device.sensors of every Device it created
    parent            \* Device.parent of every Device it created (NoDevice: not set)

topoVars == <<setupData, devices, created, topoPc, physicalDevices, sensors, parent>>

\* Session client.
VARIABLES
    endpoint,         \* "direct" (CloudApiClient) or "jwt" (CloudJWTApiClient)
    restorePc,        \* GET /authenticated of the constructor: "none" (Node), "pending", "done"
    connectPromise,   \* ApiClient.connectPromise: a promise number, NoPromise if undefined
    isAuthenticated,  \* ApiClient.isAuthenticated
    isLockedDown,     \* CloudApiClient.isLockedDown
    lockdownDelay,    \* CloudApiClient.lockdownDelay, in seconds
    authState,        \* per promise: "unused", "token", "jwt", "login", "resolved", "rejected"
    authError,        \* per rejected promise: "locked", "401", "4xx", "other"
    lockTimer,        \* per promise: the lockdown timer its failure armed (ms left)
    nextPromise,      \* the number the next authenticate() call gets
    reqPc,            \* per request: "idle", "await", "http", "done", "failed"
    reqPromise,       \* per request: the connect promise it awaits
    reqReconnect,     \* per request: the reconnect argument of the running request() call
    lastEmitted,      \* the last notification emitted: "none", "connect", "disconnect"
    obs               \* what an observer of the session client has recorded

authVars == <<endpoint, restorePc, connectPromise, isAuthenticated, isLockedDown, lockdownDelay,
              authState, authError, lockTimer, nextPromise, reqPc, reqPromise,
              reqReconnect, lastEmitted, obs>>

\* Execution tracker and event poller.
VARIABLES
    connected,          \* the session client's last notification was 'connect'
    executionPool,      \* the keys of Client.executionPool: the tracked exec ids
    poolLength,         \* executionPool.length, the Array length JavaScript keeps
    issued,             \* the exec ids the remote service has handed out
    execTimer,          \* per exec id: the timeout timer execute() armed (ms left)
    callPc,             \* per execute() call: "idle", "delay", "post", "done", "failed"
    callTimer,          \* per execute() call: the postponement delay (ms left)
    eventPollingPeriod, \* Client.eventPollingPeriod, in seconds
    pollingTaskId,      \* TRUE while the polling interval is armed
    refreshTaskId,      \* TRUE while the refresh interval is armed
    fetchLock,          \* Client.fetchLock
    fetchPc,            \* the running fetchEvents(): "idle", "fetch", "fetchDelay", "register", "registerDelay"
    fetching,           \* pollingTask() calls between fetchLock = true and their return
    fetchTimer,         \* the 10 s delay of fetchEvents() (ms left)
    listenerId,         \* Client.listenerId, NoListener if null
    nextListener,       \* the id the next registration is answered with
    cancelPc,           \* the exec ids whose cancelExecution() call awaits its DELETE
    track               \* what an observer of the tracked executions has recorded

execVars == <<connected, executionPool, poolLength, issued, execTimer, callPc,
              callTimer, eventPollingPeriod, pollingTaskId, refreshTaskId,
              fetchLock, fetchPc, fetching, fetchTimer, listenerId, nextListener,
              cancelPc, track>>

\* One Device object and the listeners of its 'states' notification.
VARIABLES
    states,             \* Device.states: state name -> [type, value], for the names held
    pendingUpdate,      \* Device.pendingUpdate: state name -> the State last set for it
    pendingUpdateTimer, \* Device.pendingUpdateTimer: the debounce timer (ms left)
    seen                \* what a listener of 'states' and of the calls has recorded

devVars == <<states, pendingUpdate, pendingUpdateTimer, seen>>

\* One Execution object and the listeners of its 'update' notifications.
VARIABLES
    actions,            \* Execution.actions: the deviceURL of every action
    updates,            \* the 'update' notifications of the last onStateUpdate call
    commands            \* Action.commands of one Action: [name, parameters] records

runVars == <<actions, updates, commands>>

\* The full refresh of the device states.
VARIABLES
    refreshLock,        \* Client.refreshLock
    refreshPc,          \* per refreshAllStates() call: "idle", "post", "armed", "failed", "over"
    refreshTimer,       \* per refreshAllStates() call: its 30 s fallback timer (ms left)
    refetching          \* refreshDevices() calls that await GET /setup/devices

refVars == <<refreshLock, refreshPc, refreshTimer, refetching>>

vars == <<topoVars, authVars, execVars, devVars, runVars, refVars>>

(***************************************************************************)
(* PART 1.  Device topology: models/Device.ts and Client.attachDevices.    *)
(***************************************************************************)

\* Longest flat device list given to attachDevices.
MaxDevices == 3

\* Device.parent when it holds no Device (undefined after construction, or null).
NoDevice == 0

\* A deviceURL without '#': componentId falls back to 1.
NoComponent == 0

\* deviceURL = base ['#' component]
DeviceURLs ==
    { [base |-> "A", comp |-> 1], [base |-> "A", comp |-> 2],
      [base |-> "B", comp |-> NoComponent], [base |-> "B", comp |-> 2] }

\* (controllableName, definition.widgetName, definition.uiClass) of the
\* device kinds the ownership rules of isSensorOf tell apart.
DeviceTypes ==
    { [controllableName |-> "io:AtlanticPassAPCHeatPumpMainComponent",
       widgetName |-> "Other", uiClass |-> "HeatingSystem"],
      [controllableName |-> "io:AtlanticPassAPCZoneTemperatureSensor",
       widgetName |-> "TemperatureSensor", uiClass |-> "Other"],
      [controllableName |-> "io:AtlanticPassAPCOutsideTemperatureSensor",
       widgetName |-> "TemperatureSensor", uiClass |-> "Other"],
      [controllableName |-> "io:HeatingRelatedElectricalEnergyConsumptionSensor",
       widgetName |-> "Other", uiClass |-> "Other"],
      [controllableName |-> "io:DHWRelatedElectricalEnergyConsumptionSensor",
       widgetName |-> "Other", uiClass |-> "Other"],
      [controllableName |-> "io:AtlanticPassAPCDHWComponent",
       widgetName |-> "Other", uiClass |-> "Other"],
      [controllableName |-> "io:Other",
       widgetName |-> "TemperatureSensor", uiClass |-> "Other"],
      [controllableName |-> "io:Other",
       widgetName |-> "Other", uiClass |-> "Other"] }

\* The lists of n records the listing call can return: it names every
\* device once, so no deviceURL occurs twice.
URLLists(n) ==
    { f \in [1..n -> DeviceURLs] : \A i, j \in 1..n : f[i] = f[j] => i = j }

DeviceList(urls, types) ==
    [ i \in 1..Len(urls) |->
        [deviceURL |-> urls[i], controllableName |-> types[i].controllableName,
         widgetName |-> types[i].widgetName, uiClass |-> types[i].uiClass] ]

\* get componentId(): the number after '#', 1 when there is no '#'.
componentId(d) ==
    IF d.deviceURL.comp = NoComponent THEN 1 ELSE d.deviceURL.comp

isMainDevice(d) == componentId(d) = 1

\* isSensorOf(device): the first switch returns for the four named
\* controllableNames, the second for the TemperatureSensor widget; falling
\* out of both returns undefined, which the caller reads as false.
isSensorOf(this, device) ==
    CASE this.controllableName = "io:AtlanticPassAPCOutsideTemperatureSensor" ->
            FALSE
      [] this.controllableName = "io:AtlanticPassAPCZoneTemperatureSensor" ->
            device.uiClass = "HeatingSystem"
      [] this.controllableName = "io:HeatingRelatedElectricalEnergyConsumptionSensor" ->
            device.controllableName = "io:AtlanticPassAPCHeatPumpMainComponent"
      [] this.controllableName = "io:DHWRelatedElectricalEnergyConsumptionSensor" ->
            device.controllableName = "io:AtlanticPassAPCDHWComponent"
      [] OTHER ->
            IF this.widgetName = "TemperatureSensor"
            THEN device.uiClass = "HeatingSystem"
            ELSE FALSE

\* The state attachDevices starts its forEach with.
AttachStart(data, registry, made) ==
    [ devices         |-> registry,
      made            |-> made,
      lastMainDevice  |-> NoDevice,
      lastDevice      |-> NoDevice,
      physicalDevices |-> << >>,
      sensors         |-> [i \in 1..Len(data) |-> << >>],
      parent          |-> [i \in 1..Len(data) |-> NoDevice] ]

\* Mutation: the attached sensor is also returned at top level.
addSensor_AlsoTopLevel(st, owner, i) ==
    [st EXCEPT !.parent[i] = owner,
               !.sensors[owner] = Append(@, i),
               !.physicalDevices = Append(@, i)]

\* addSensor(device): device.parent = this; this.sensors.push(device).
addSensor(st, owner, i) ==
    [st EXCEPT !.parent[i] = owner,
               !.sensors[owner] = Append(@, i)]

\* Mutation: the promoted record is given the previous lastDevice as parent.
PromoteStandalone_ParentLastDevice(st, i) ==
    [st EXCEPT !.lastDevice = i,
               !.parent[i] = st.lastDevice,
               !.physicalDevices = Append(@, i)]

\* A non-main record that neither lastDevice nor lastMainDevice owns.
PromoteStandalone(st, i) ==
    [st EXCEPT !.lastDevice = i,
               !.parent[i] = st.lastMainDevice,
               !.physicalDevices = Append(@, i)]

\* A main record: it becomes lastMainDevice and lastDevice and is returned.
PushMainDevice(st, i) ==
    [st EXCEPT !.lastMainDevice = i,
               !.lastDevice = i,
               !.physicalDevices = Append(@, i)]

\* Mutation: the registry takes the new Device of every listed deviceURL.
RegisterDevice_Replace(reg, url, i) == [reg EXCEPT ![url] = i]

\* Only a deviceURL the registry does not hold yet is registered.
RegisterDevice(reg, url, i) ==
    IF reg[url] # NoDevice THEN reg ELSE [reg EXCEPT ![url] = i]

\* Mutation: ownership is tested against lastMainDevice before lastDevice.
AttachOne_MainFirst(data, st, i) ==
    LET device == data[i]
        st1 == [st EXCEPT !.devices = RegisterDevice(@, device.deviceURL, st.made + i)]
    IN  IF isMainDevice(device)
        THEN PushMainDevice(st1, i)
        ELSE IF st1.lastMainDevice # NoDevice
                /\ isSensorOf(device, data[st1.lastMainDevice])
             THEN addSensor(st1, st1.lastMainDevice, i)
             ELSE IF st1.lastDevice # NoDevice /\ isSensorOf(device, data[st1.lastDevice])
                  THEN addSensor(st1, st1.lastDevice, i)
                  ELSE PromoteStandalone(st1, i)

\* One round of the forEach of attachDevices, for the record at position i.
AttachOne(data, st, i) ==
    LET device == data[i]
        st1 == [st EXCEPT !.devices = RegisterDevice(@, device.deviceURL, st.made + i)]
    IN  IF isMainDevice(device)
        THEN PushMainDevice(st1, i)
        ELSE IF st1.lastDevice # NoDevice /\ isSensorOf(device, data[st1.lastDevice])
             THEN addSensor(st1, st1.lastDevice, i)
             ELSE IF st1.lastMainDevice # NoDevice
                     /\ isSensorOf(device, data[st1.lastMainDevice])
                  THEN addSensor(st1, st1.lastMainDevice, i)
                  ELSE PromoteStandalone(st1, i)

RECURSIVE AttachFrom(_, _, _)
AttachFrom(data, st, i) ==
    IF i > Len(data) THEN st ELSE AttachFrom(data, AttachOne(data, st, i), i + 1)

\* data.map(...) creates one Device per record, after the made ones.
attachDevices(data, registry, made) ==
    AttachFrom(data, AttachStart(data, registry, made), 1)

TopoInit ==
    /\ \E n \in 0..MaxDevices :
          \E urls \in URLLists(n), types \in [1..n -> DeviceTypes] :
              setupData = DeviceList(urls, types)
    /\ devices = [u \in DeviceURLs |-> NoDevice]
    /\ created = 0
    /\ topoPc = "ready"
    /\ physicalDevices = << >>
    /\ sensors = << >>
    /\ parent = << >>

\* getDevices(): the listing call answered with setupData, then attachDevices.
GetDevices ==
    /\ topoPc = "ready"
    /\ LET r == attachDevices(setupData, devices, created)
       IN  /\ devices' = r.devices
           /\ created' = created + Len(setupData)
           /\ physicalDevices' = r.physicalDevices
           /\ sensors' = r.sensors
           /\ parent' = r.parent
    /\ topoPc' = "done"
    /\ UNCHANGED setupData
    /\ UNCHANGED <<authVars, execVars, devVars, runVars, refVars>>

\* Most Device objects created in a run with listing calls repeated.
MaxCreated == 6

\* A later getDevices(), getSetup() or refreshDevices() call is answered
\* with the listing data: attachDevices runs on it with the registry of
\* the calls before.
GetDevicesAgain(data) ==
    /\ topoPc = "done"
    /\ created + Len(data) <= MaxCreated
    /\ setupData' = data
    /\ LET r == attachDevices(data, devices, created)
       IN  /\ devices' = r.devices
           /\ created' = created + Len(data)
           /\ physicalDevices' = r.physicalDevices
           /\ sensors' = r.sensors
           /\ parent' = r.parent
    /\ UNCHANGED topoPc
    /\ UNCHANGED <<authVars, execVars, devVars, runVars, refVars>>

\* The topology part before any listing call.
TopoIdle ==
    /\ setupData = << >>
    /\ devices = [u \in DeviceURLs |-> NoDevice]
    /\ created = 0
    /\ topoPc = "ready"
    /\ physicalDevices = << >>
    /\ sensors = << >>
    /\ parent = << >>


(***************************************************************************)
(* PART 1b.  Device state updates: Device.updateStates (models/Device.ts). *)
(*                                                                         *)
(* The variables hold one Device object.  A burst is the calls of          *)
(* updateStates from one that finds no debounce timer armed to the firing  *)
(* of the timer.                                                           *)
(***************************************************************************)

\* setTimeout(() => {...}, 100)
DEBOUNCE == 100

\* State.type of an object and of an array of objects.
OBJECT_TYPE == 10
ARRAY_TYPE == 11

\* State.type of an integer state.
INTEGER_TYPE == 1

\* Most State entries in one updateStates call.
MaxStatesPerCall == 2

\* The state names of the device, with the type the service gives each.
StateTypes ==
    [ n \in {"core:ClosureState", "core:TargetClosureState",
             "core:ManufacturerSettingsState"} |->
        IF n = "core:ManufacturerSettingsState" THEN OBJECT_TYPE ELSE INTEGER_TYPE ]

StateNames == DOMAIN StateTypes

StateValues == {0, 1}

\* interface State { name; type; value }
NewStates ==
    { [name |-> n, type |-> StateTypes[n], value |-> v] : n \in StateNames, v \in StateValues }

\* The arguments of updateStates: lists of at most MaxStatesPerCall states.
StateLists == UNION { [1..n -> NewStates] : n \in 0..MaxStatesPerCall }

\* new Map(), and a states array without entries.
EmptyMap == [n \in {} |-> 0]

\* Map.set(k, v), and Array.push of a state under its name.
Put(m, k, v) == [n \in DOMAIN m \cup {k} |-> IF n = k THEN v ELSE m[n]]

\* The states a Device can hold when it is created from a listing.
DeviceStates ==
    UNION { [S -> StateValues] : S \in SUBSET StateNames }

StatesOf(values) ==
    [n \in DOMAIN values |-> [type |-> StateTypes[n], value |-> values[n]]]

\* What the listener has recorded about the current burst.
SeenInit ==
    [ burst      |-> "none",     \* "none", "open" (timer armed), "closed" (timer fired)
      differing  |-> EmptyMap,   \* per name given a new or differing value: the last such value
      changed    |-> EmptyMap,   \* the same, without the names held with an object type
      emitted    |-> 0,          \* 'states' notifications raised since the burst began
      payload    |-> EmptyMap,   \* name -> value of the last notification
      sinceLast  |-> 0 ]         \* ms since the last call, up to DEBOUNCE

\* The Device fields, as one value.
Device ==
    [ states             |-> states,
      pendingUpdate      |-> pendingUpdate,
      pendingUpdateTimer |-> pendingUpdateTimer,
      seen               |-> seen ]

SetDevice(dev) ==
    /\ states' = dev.states
    /\ pendingUpdate' = dev.pendingUpdate
    /\ pendingUpdateTimer' = dev.pendingUpdateTimer
    /\ seen' = dev.seen

\* The listener's record of one State given to updateStates, taken from
\* the value the device holds when the State is visited.
Observe(dev, newState) ==
    LET held == newState.name \in DOMAIN dev.states
        differs == ~held \/ dev.states[newState.name].value # newState.value
        object == held /\ dev.states[newState.name].type \in {OBJECT_TYPE, ARRAY_TYPE}
    IN  [dev.seen EXCEPT
            !.differing = IF differs THEN Put(@, newState.name, newState.value) ELSE @,
            !.changed = IF differs /\ ~object THEN Put(@, newState.name, newState.value) ELSE @]

\* Mutation: no type is ignored.
IsIgnoredType_Never(type) == FALSE

\* state.type !== 10 && state.type !== 11, negated
IsIgnoredType(type) == type = OBJECT_TYPE \/ type = ARRAY_TYPE

\* One round of the for loop of updateStates.
ApplyState(dev, newState) ==
    LET name == newState.name
        d1 == [dev EXCEPT !.seen = Observe(dev, newState)]
    IN  IF name \in DOMAIN d1.states
        THEN IF ~IsIgnoredType(d1.states[name].type)
                /\ d1.states[name].value # newState.value
             THEN [d1 EXCEPT !.states[name].value = newState.value,
                             !.pendingUpdate = Put(@, name, newState)]
             ELSE d1
        ELSE [d1 EXCEPT !.states = Put(@, name, [type |-> newState.type,
                                                  value |-> newState.value]),
                        !.pendingUpdate = Put(@, name, newState)]

RECURSIVE ApplyStates(_, _, _)
ApplyStates(dev, newStates, i) ==
    IF i > Len(newStates) THEN dev
    ELSE ApplyStates(ApplyState(dev, newStates[i]), newStates, i + 1)

\* updateStates(states): the armed timer is cleared, the states are
\* applied, and the timer is armed anew.
updateStates(dev, newStates) ==
    LET d0 == IF dev.pendingUpdateTimer = NoTimer
              THEN [dev EXCEPT !.seen = [SeenInit EXCEPT !.burst = "open"]]
              ELSE [dev EXCEPT !.seen.sinceLast = 0]
        d1 == ApplyStates(d0, newStates, 1)
    IN  [d1 EXCEPT !.pendingUpdateTimer = DEBOUNCE]

\* A caller (the application, or a refresh) calls device.updateStates.
UpdateStates(newStates) ==
    /\ SetDevice(updateStates(Device, newStates))
    /\ UNCHANGED <<topoVars, authVars, execVars, runVars, refVars>>

\* Mutation: the notified entries stay in pendingUpdate.
AfterEmit_Keep(pending) == pending

\* this.pendingUpdate = new Map()
AfterEmit(pending) == EmptyMap

\* The debounce timer fires: a non-empty pendingUpdate is notified and
\* replaced by an empty map.
PendingUpdateFires ==
    /\ pendingUpdateTimer = 0
    /\ pendingUpdateTimer' = NoTimer
    /\ IF DOMAIN pendingUpdate # {}
       THEN /\ seen' = [seen EXCEPT
                          !.burst = "closed",
                          !.emitted = @ + 1,
                          !.payload = [n \in DOMAIN pendingUpdate |-> pendingUpdate[n].value]]
            /\ pendingUpdate' = AfterEmit(pendingUpdate)
       ELSE /\ seen' = [seen EXCEPT !.burst = "closed"]
            /\ UNCHANGED pendingUpdate
    /\ UNCHANGED states
    /\ UNCHANGED <<topoVars, authVars, execVars, runVars, refVars>>

\* new Device(), given the states of values by Object.assign.
DeviceInit(values) ==
    /\ states = StatesOf(values)
    /\ pendingUpdate = EmptyMap
    /\ pendingUpdateTimer = NoTimer
    /\ seen = SeenInit

\* A Device without states.
DeviceIdle == DeviceInit(EmptyMap)


(***************************************************************************)
(* PART 2.  The session client: ApiClient and CloudApiClient               *)
(* (CloudJWTApiClient for the token-exchange variant).                     *)
(*                                                                         *)
(* Every call of authenticate() makes a promise; promises are numbered in  *)
(* the order of the calls.  A request is the promise chain request()       *)
(* builds: it awaits the connect promise, then its own HTTP call, and its  *)
(* catch handler runs on the first rejection.                              *)
(***************************************************************************)

\* connectPromise === undefined
NoPromise == 0

\* private lockdownDelay = 60
LOCKDOWN_INITIAL == 60

\* authenticate() calls made in one run of the direct session client.
MaxAttempts == 4

\* authenticate() calls made in one run over both variants.
MaxLockdownAttempts == 2

\* Authentication attempts and restored sessions of one run in a browser.
MaxRestoreAttempts == 3

\* Requests the application and the poller have in flight at once.
MaxRequests == 2

Promises == 1..Max({MaxAttempts, MaxLockdownAttempts, MaxRestoreAttempts})

Requests == 1..MaxRequests

InFlight == {"token", "jwt", "login"}

\* What the remote service answers to a failing login or token call: 401,
\* another 4xx status, or anything else (5xx, no response at all).
AuthFailures == {"401", "4xx", "other"}

\* A settled connect promise whose reaction in some request chain has not
\* run yet.  Reactions are microtasks: they run before any further I/O
\* callback or timer.
ReactionPending ==
    \E r \in Requests :
        reqPc[r] = "await" /\ authState[reqPromise[r]] \in {"resolved", "rejected"}

\* What the observer records.
ObsInit ==
    [ calls          |-> [a \in Promises |-> 0],      \* transport calls each attempt issued
      startedLocked  |-> [a \in Promises |-> FALSE],  \* attempt made during lockdown
      retries        |-> [r \in Requests |-> 0],      \* retries of the running request
      wanted         |-> [r \in Requests |-> FALSE],  \* reconnect asked by the caller
      expired        |-> [r \in Requests |-> FALSE],  \* 401 on a call issued on an authenticated session
      onAuth         |-> [r \in Requests |-> FALSE],  \* HTTP call issued on an authenticated session
      failures       |-> 0,       \* consecutive credential failures
      lockDuration   |-> 0,       \* ms of the lockdown the last credential failure started
      succeeded      |-> FALSE,   \* some authentication has succeeded
      emitBroken     |-> FALSE ]  \* connect/disconnect did not alternate

\* Mutation: authenticate() without the isLockedDown test.
AuthenticateStart_NoLockCheck(locked, variant) ==
    [ state |-> IF variant = "jwt" THEN "token" ELSE "login",
      error |-> "none", calls |-> 1 ]

\* authenticate(), up to its first await: locked down it throws at once;
\* otherwise getLoginParams runs, which for the direct variant resolves
\* without I/O so that POST /login is issued, and for the JWT variant
\* issues the access-token request.
AuthenticateStart(locked, variant) ==
    IF locked
    THEN [ state |-> "rejected", error |-> "locked", calls |-> 0 ]
    ELSE [ state |-> IF variant = "jwt" THEN "token" ELSE "login",
           error |-> "none", calls |-> 1 ]

\* emit(name), as the observer sees it: notifications must alternate,
\* starting with connect.
Emit(o, last, name) ==
    [o EXCEPT !.emitBroken = @ \/ (last = name) \/ (last = "none" /\ name = "disconnect")]

\* connect() must start an attempt: connectPromise is undefined.
MustAuthenticate(cp) == cp = NoPromise

\* request(options, reconnect) up to its first await, for request r:
\* connect() returns connectPromise, after calling authenticate() if it is
\* undefined; the chain then awaits that promise.
\* cp, o: connectPromise and the observer's record when the call is made;
\* budget: the authenticate() calls the specification allows in one run.
DoRequest(r, reconnect, cp, o, budget) ==
    IF MustAuthenticate(cp)
    THEN LET a == nextPromise
             st == AuthenticateStart(isLockedDown, endpoint)
         IN  /\ nextPromise <= budget
             /\ nextPromise' = nextPromise + 1
             /\ connectPromise' = a
             /\ authState' = [authState EXCEPT ![a] = st.state]
             /\ authError' = [authError EXCEPT ![a] = st.error]
             /\ reqPromise' = [reqPromise EXCEPT ![r] = a]
             /\ obs' = [o EXCEPT !.calls[a] = st.calls,
                                 !.startedLocked[a] = isLockedDown]
    ELSE /\ connectPromise' = cp
         /\ reqPromise' = [reqPromise EXCEPT ![r] = cp]
         /\ obs' = o
         /\ UNCHANGED <<nextPromise, authState, authError>>

\* The application (or the poller) calls get/post/put/delete.
Request(r, reconnect, budget) ==
    /\ reqPc[r] \in {"idle", "done", "failed"}
    /\ DoRequest(r, reconnect, connectPromise,
                 [obs EXCEPT !.retries[r] = 0, !.wanted[r] = reconnect,
                             !.expired[r] = FALSE, !.onAuth[r] = FALSE],
                 budget)
    /\ reqPc' = [reqPc EXCEPT ![r] = "await"]
    /\ reqReconnect' = [reqReconnect EXCEPT ![r] = reconnect]
    /\ UNCHANGED <<endpoint, restorePc, isAuthenticated, isLockedDown, lockdownDelay,
                   lockTimer, lastEmitted>>
    /\ UNCHANGED <<topoVars, execVars, devVars, runVars, refVars>>

\* The connect promise is resolved: .then(() => this.client(options)).
AwaitResolved(r) ==
    /\ reqPc[r] = "await"
    /\ authState[reqPromise[r]] = "resolved"
    /\ reqPc' = [reqPc EXCEPT ![r] = "http"]
    /\ obs' = [obs EXCEPT !.onAuth[r] = isAuthenticated]
    /\ UNCHANGED <<endpoint, restorePc, connectPromise, isAuthenticated, isLockedDown,
                   lockdownDelay, authState, authError, lockTimer, nextPromise,
                   reqPromise, reqReconnect, lastEmitted>>
    /\ UNCHANGED <<topoVars, execVars, devVars, runVars, refVars>>

\* The promise request() returned settles: the chain of request r is over
\* and holds no promise any more.
Settle(r, outcome) ==
    /\ reqPc' = [reqPc EXCEPT ![r] = outcome]
    /\ reqPromise' = [reqPromise EXCEPT ![r] = NoPromise]
    /\ reqReconnect' = [reqReconnect EXCEPT ![r] = FALSE]

\* return this.request(options, false)
RetryReconnect(flag) == FALSE

\* The catch handler of request r, for an error that carries a response
\* with status 401.
Catch401(r, o, budget) ==
    IF isAuthenticated
    THEN /\ isAuthenticated' = FALSE
         /\ lastEmitted' = "disconnect"
         /\ IF reqReconnect[r]
            THEN /\ DoRequest(r, RetryReconnect(reqReconnect[r]), NoPromise,
                              [Emit(o, lastEmitted, "disconnect")
                                  EXCEPT !.retries[r] = @ + 1],
                              budget)
                 /\ reqPc' = [reqPc EXCEPT ![r] = "await"]
                 /\ reqReconnect' = [reqReconnect EXCEPT ![r] = RetryReconnect(@)]
            ELSE /\ connectPromise' = NoPromise
                 /\ Settle(r, "failed")
                 /\ obs' = Emit(o, lastEmitted, "disconnect")
                 /\ UNCHANGED <<nextPromise, authState, authError>>
    ELSE /\ connectPromise' = NoPromise
         /\ Settle(r, "failed")
         /\ obs' = o
         /\ UNCHANGED <<isAuthenticated, lastEmitted, nextPromise, authState,
                        authError>>

\* The catch handler for any other error: it is rethrown to the caller.
CatchOther(r) ==
    /\ Settle(r, "failed")
    /\ UNCHANGED <<connectPromise, isAuthenticated, lastEmitted, nextPromise,
                   authState, authError, obs>>

\* The connect promise is rejected: the chain skips to its catch handler.
AwaitRejected(r, budget) ==
    /\ reqPc[r] = "await"
    /\ authState[reqPromise[r]] = "rejected"
    /\ IF authError[reqPromise[r]] = "401" THEN Catch401(r, obs, budget)
       ELSE CatchOther(r)
    /\ UNCHANGED <<endpoint, restorePc, isLockedDown, lockdownDelay, lockTimer>>
    /\ UNCHANGED <<topoVars, execVars, devVars, runVars, refVars>>

\* The HTTP call of request r is answered with a 2xx response.
HttpOk(r) ==
    /\ ~ReactionPending
    /\ reqPc[r] = "http"
    /\ Settle(r, "done")
    /\ UNCHANGED <<endpoint, restorePc, connectPromise, isAuthenticated, isLockedDown,
                   lockdownDelay, authState, authError, lockTimer, nextPromise,
                   lastEmitted, obs>>
    /\ UNCHANGED <<topoVars, execVars, devVars, runVars, refVars>>

\* The HTTP call of request r is answered with 401.
Http401(r, budget) ==
    /\ ~ReactionPending
    /\ reqPc[r] = "http"
    /\ Catch401(r, [obs EXCEPT !.expired[r] = @ \/ obs.onAuth[r]], budget)
    /\ UNCHANGED <<endpoint, restorePc, isLockedDown, lockdownDelay, lockTimer>>
    /\ UNCHANGED <<topoVars, execVars, devVars, runVars, refVars>>

\* The HTTP call of request r fails in any other way.
HttpError(r) ==
    /\ ~ReactionPending
    /\ reqPc[r] = "http"
    /\ CatchOther(r)
    /\ UNCHANGED <<endpoint, restorePc, isLockedDown, lockdownDelay, lockTimer>>
    /\ UNCHANGED <<topoVars, execVars, devVars, runVars, refVars>>

\* CloudJWTApiClient.getLoginParams: the access-token request is answered,
\* the JWT request is issued.
TokenOk(a) ==
    /\ ~ReactionPending
    /\ authState[a] = "token"
    /\ authState' = [authState EXCEPT ![a] = "jwt"]
    /\ obs' = [obs EXCEPT !.calls[a] = @ + 1]
    /\ UNCHANGED <<endpoint, restorePc, connectPromise, isAuthenticated, isLockedDown,
                   lockdownDelay, authError, lockTimer, nextPromise, reqPc,
                   reqPromise, reqReconnect, lastEmitted>>
    /\ UNCHANGED <<topoVars, execVars, devVars, runVars, refVars>>

\* The JWT request is answered, POST /login is issued.
JwtOk(a) ==
    /\ ~ReactionPending
    /\ authState[a] = "jwt"
    /\ authState' = [authState EXCEPT ![a] = "login"]
    /\ obs' = [obs EXCEPT !.calls[a] = @ + 1]
    /\ UNCHANGED <<endpoint, restorePc, connectPromise, isAuthenticated, isLockedDown,
                   lockdownDelay, authError, lockTimer, nextPromise, reqPc,
                   reqPromise, reqReconnect, lastEmitted>>
    /\ UNCHANGED <<topoVars, execVars, devVars, runVars, refVars>>

\* this.lockdownDelay = 60
DelayAfterSuccess(delay) == LOCKDOWN_INITIAL

\* POST /login succeeds: authenticate() resets the delay and resolves, and
\* the reaction connect() attached first marks the session authenticated.
LoginOk(a) ==
    /\ ~ReactionPending
    /\ authState[a] = "login"
    /\ authState' = [authState EXCEPT ![a] = "resolved"]
    /\ lockdownDelay' = DelayAfterSuccess(lockdownDelay)
    /\ isAuthenticated' = TRUE
    /\ lastEmitted' = IF isAuthenticated THEN lastEmitted ELSE "connect"
    /\ obs' = [(IF isAuthenticated THEN obs ELSE Emit(obs, lastEmitted, "connect"))
                  EXCEPT !.failures = 0, !.succeeded = TRUE]
    /\ UNCHANGED <<endpoint, restorePc, connectPromise, isLockedDown, authError, lockTimer,
                   nextPromise, reqPc, reqPromise, reqReconnect>>
    /\ UNCHANGED <<topoVars, execVars, devVars, runVars, refVars>>

\* error.response.status >= 400 && error.response.status < 500
IsCredentialFailure(status) == status \in {"401", "4xx"}

\* A call of attempt a (token, JWT or login) fails.  A 4xx status locks the
\* client down and arms the timer that ends the lockdown; any failure
\* rejects the promise.
AuthFail(a, status) ==
    /\ ~ReactionPending
    /\ authState[a] \in InFlight
    /\ authState' = [authState EXCEPT ![a] = "rejected"]
    /\ authError' = [authError EXCEPT ![a] = status]
    /\ IF IsCredentialFailure(status)
       THEN /\ isLockedDown' = TRUE
            /\ lockTimer' = [lockTimer EXCEPT ![a] = lockdownDelay * 1000]
            /\ obs' = [obs EXCEPT !.failures = @ + 1,
                                  !.lockDuration = lockdownDelay * 1000]
       ELSE UNCHANGED <<isLockedDown, lockTimer, obs>>
    /\ UNCHANGED <<endpoint, restorePc, connectPromise, isAuthenticated, lockdownDelay,
                   nextPromise, reqPc, reqPromise, reqReconnect, lastEmitted>>
    /\ UNCHANGED <<topoVars, execVars, devVars, runVars, refVars>>

\* The lockdown timer of attempt a fires.
LockTimerFires(a) ==
    /\ ~ReactionPending
    /\ lockTimer[a] = 0
    /\ lockTimer' = [lockTimer EXCEPT ![a] = NoTimer]
    /\ isLockedDown' = FALSE
    /\ lockdownDelay' = lockdownDelay * 2
    /\ UNCHANGED <<endpoint, restorePc, connectPromise, isAuthenticated, authState, authError,
                   nextPromise, reqPc, reqPromise, reqReconnect, lastEmitted, obs>>
    /\ UNCHANGED <<topoVars, execVars, devVars, runVars, refVars>>

AuthArmed == { lockTimer[a] : a \in Promises } \ {NoTimer}

\* d ms pass; no armed timer is overrun.
AuthAdvance(d) ==
    /\ ~ReactionPending
    /\ AuthArmed # {}
    /\ \A t \in AuthArmed : d <= t
    /\ lockTimer' = [a \in Promises |->
                        IF lockTimer[a] = NoTimer THEN NoTimer ELSE lockTimer[a] - d]
    /\ UNCHANGED <<endpoint, restorePc, connectPromise, isAuthenticated, isLockedDown,
                   lockdownDelay, authState, authError, nextPromise, reqPc,
                   reqPromise, reqReconnect, lastEmitted, obs>>
    /\ UNCHANGED <<topoVars, execVars, devVars, runVars, refVars>>

\* restoreSession(authenticated), called with the answer of the
\* GET /authenticated the constructor issues in a browser: the flag is
\* assigned, and a restored session is given a resolved connect promise
\* and notified.
RestoreSession(authenticated, budget) ==
    /\ ~ReactionPending
    /\ restorePc = "pending"
    /\ restorePc' = "done"
    /\ isAuthenticated' = authenticated
    /\ IF authenticated
       THEN /\ nextPromise <= budget
            /\ nextPromise' = nextPromise + 1
            /\ connectPromise' = nextPromise
            /\ authState' = [authState EXCEPT ![nextPromise] = "resolved"]
            /\ lastEmitted' = "connect"
            /\ obs' = Emit(obs, lastEmitted, "connect")
       ELSE UNCHANGED <<nextPromise, connectPromise, authState, lastEmitted, obs>>
    /\ UNCHANGED <<endpoint, isLockedDown, lockdownDelay, authError, lockTimer,
                   reqPc, reqPromise, reqReconnect>>
    /\ UNCHANGED <<topoVars, execVars, devVars, runVars, refVars>>

\* GET /authenticated fails: .catch(() => this.isAuthenticated = false).
RestoreFailed ==
    /\ ~ReactionPending
    /\ restorePc = "pending"
    /\ restorePc' = "done"
    /\ isAuthenticated' = FALSE
    /\ UNCHANGED <<endpoint, connectPromise, isLockedDown, lockdownDelay, authState,
                   authError, lockTimer, nextPromise, reqPc, reqPromise,
                   reqReconnect, lastEmitted, obs>>
    /\ UNCHANGED <<topoVars, execVars, devVars, runVars, refVars>>

\* The steps in which time passes in the session specification.
AuthTimeSteps == {60000}

\* new CloudApiClient(host) under Node: isAuthenticated = false.
AuthInit ==
    /\ connectPromise = NoPromise
    /\ isAuthenticated = FALSE
    /\ isLockedDown = FALSE
    /\ lockdownDelay = LOCKDOWN_INITIAL
    /\ authState = [a \in Promises |-> "unused"]
    /\ authError = [a \in Promises |-> "none"]
    /\ lockTimer = [a \in Promises |-> NoTimer]
    /\ nextPromise = 1
    /\ reqPc = [r \in Requests |-> "idle"]
    /\ reqPromise = [r \in Requests |-> NoPromise]
    /\ reqReconnect = [r \in Requests |-> FALSE]
    /\ lastEmitted = "none"
    /\ obs = ObsInit

(***************************************************************************)
(* PART 2b.  An Execution object and the notifications of its actions:     *)
(* Execution.onStateUpdate (models/Execution.ts, kept in                   *)
(* models/Location.ts here).                                               *)
(***************************************************************************)

\* Most actions added to one Execution.
MaxActions == 3

\* Action.deviceURL of the actions of an execution.
ActionURLs == { [base |-> "A", comp |-> 1], [base |-> "A", comp |-> 2] }

\* enum ExecutionState
ExecutionStates ==
    { "INITIALIZED", "NOT_TRANSMITTED", "TRANSMITTED", "IN_PROGRESS",
      "COMPLETED", "FAILED", "TIMED_OUT" }

\* The event given to onStateUpdate, as far as the method reads it:
\* null (isNull), or an event whose failureType is a string ("" when the
\* field is missing) and whose failedCommands is missing (hasFailedCommands
\* FALSE) or an array naming the deviceURLs of failedCommands.
NullEvent == [isNull |-> TRUE, failureType |-> "", hasFailedCommands |-> FALSE,
              failedCommands |-> {}]

StateEvents ==
    {NullEvent} \cup
    { [isNull |-> FALSE, failureType |-> ft, hasFailedCommands |-> TRUE,
       failedCommands |-> urls] :
      ft \in {"", "CMD_CANCELLED"}, urls \in SUBSET ActionURLs } \cup
    { [isNull |-> FALSE, failureType |-> ft, hasFailedCommands |-> FALSE,
       failedCommands |-> {}] :
      ft \in {"", "CMD_CANCELLED"} }

\* event?.failureType && event?.failedCommands: a non-empty string and an
\* array, empty or not, are truthy.
HasFailure(event) ==
    ~event.isNull /\ event.failureType # "" /\ event.hasFailedCommands

\* Mutation: every action is notified the state of the execution.
ActionUpdate_StateOnly(state, event, deviceURL) == state

\* What one action is notified: with a failure, FAILED when failedCommands
\* names its deviceURL and COMPLETED otherwise; without, the state given.
ActionUpdate(state, event, deviceURL) ==
    IF HasFailure(event)
    THEN IF deviceURL \in event.failedCommands THEN "FAILED" ELSE "COMPLETED"
    ELSE state

\* new Execution(label): no action yet, nothing notified.
NoUpdates == [ called |-> FALSE, state |-> "INITIALIZED", event |-> NullEvent,
               execution |-> "INITIALIZED", actions |-> << >> ]

\* addAction(action)
AddAction(deviceURL) ==
    /\ Len(actions) < MaxActions
    /\ actions' = Append(actions, deviceURL)
    /\ UNCHANGED <<updates, commands>>
    /\ UNCHANGED <<topoVars, authVars, execVars, devVars, refVars>>

\* onStateUpdate(state, event): 'update' is emitted on the execution, then
\* on every action.
OnStateUpdate(state, event) ==
    /\ updates' = [ called    |-> TRUE,
                    state     |-> state,
                    event     |-> event,
                    execution |-> state,
                    actions   |-> [i \in 1..Len(actions) |->
                                      ActionUpdate(state, event, actions[i])] ]
    /\ UNCHANGED <<actions, commands>>
    /\ UNCHANGED <<topoVars, authVars, execVars, devVars, refVars>>

RunInit ==
    /\ actions = << >>
    /\ updates = NoUpdates
    /\ commands = << >>

(***************************************************************************)
(* PART 2c.  The commands of one Action (models/Action.ts,                 *)
(* models/Command.ts).                                                     *)
(***************************************************************************)

\* Most commands given to the constructor or to one addCommands call.
MaxCommands == 3

\* Command.name
CommandNames == {"open", "setClosure"}

\* Command.parameters, an array: none, or one position.
CommandParameters == { << >>, <<0>>, <<100>> }

\* new Command(name, parameters)
Commands == [name : CommandNames, parameters : CommandParameters]

\* The arrays of up to n commands.
CommandLists(n) == UNION { [1..k -> Commands] : k \in 0..n }

\* this.commands.find((cmd) => cmd.name === name): the index of the first
\* command of that name, 0 for undefined.
FindCommand(cmds, name) ==
    IF \E j \in 1..Len(cmds) : cmds[j].name = name
    THEN CHOOSE j \in 1..Len(cmds) :
             /\ cmds[j].name = name
             /\ \A k \in 1..(j - 1) : cmds[k].name # name
    ELSE 0

\* One round of the forEach of addCommands for the command visited.
MergeCommand(cmds, command) ==
    LET existing == FindCommand(cmds, command.name)
    IN  IF existing # 0
        THEN [cmds EXCEPT ![existing].parameters = command.parameters]
        ELSE Append(cmds, command)

\* addCommands(commands): this.commands.forEach(command => ...) visits the
\* n commands the action held when the call began, as they are when
\* visited; the commands given are not read.
RECURSIVE addCommands(_, _, _, _)
addCommands(cmds, given, i, n) ==
    IF i > n THEN cmds
    ELSE addCommands(MergeCommand(cmds, cmds[i]), given, i + 1, n)

\* The application calls action.addCommands(given).
AddCommands(given) ==
    /\ commands' = addCommands(commands, given, 1, Len(commands))
    /\ UNCHANGED <<actions, updates>>
    /\ UNCHANGED <<topoVars, authVars, execVars, devVars, refVars>>

(***************************************************************************)
(* PART 3.  The execution tracker and the event poller of OverkizClient    *)
(* (Client.ts).  The session client is seen from outside here: a request   *)
(* is answered or fails, and 'connect' and 'disconnect' are notified.      *)
(*                                                                         *)
(* executionPool is a JavaScript Array used as a map from exec id to       *)
(* Execution.  Its length is one more than the largest array index ever    *)
(* assigned; a key that is not an array index (an id such as               *)
(* "3f2a...-uuid") does not count, and delete never lowers it.             *)
(***************************************************************************)
\* const EXEC_TIMEOUT = 2 * 60 * 1000
EXEC_TIMEOUT == 120000

\* if (this.executionPool.length >= 10)
EXEC_QUEUE_MAX == 10

\* await this.delay(10 * 1000) in execute()
POSTPONE_DELAY == 10000

\* await this.delay(10 * 1000) in fetchEvents()
POLL_ERROR_DELAY == 10000

\* config['execPollingPeriod'] || 5
ExecPollingPeriod == 5

\* config['pollingPeriod'] || 60
PollingPeriod == 60

\* listenerId === null
NoListener == 0

\* Exec ids handed out in a burst of submissions.
MaxPoolExecs == 11

\* Exec ids handed out in the timed specification.
MaxTimedExecs == 2

\* execute() calls running at once.
MaxCallers == 2

\* Listener registrations answered in one run.
MaxListeners == 2

\* Events in one answer to a fetch.
MaxBatch == 1

\* Exec ids handed out where every kind of state event is sent.
MaxTrackedExecs == 2

\* Exec ids handed out, and events in one answer, where device events are
\* sent.
MaxPolledExecs == 1
MaxPolledBatch == 2

\* The executions handed out while sessions are lost and restored.
MaxSessionExecs == 2

\* The executions handed out while the listener is lost and registered.
MaxListenerExecs == 1

\* The refreshAllStates() calls whose request or fallback timer is pending
\* at one time.
MaxRefreshCalls == 2

RefreshCalls == 1..MaxRefreshCalls

\* The refreshDevices() calls that await their answer at one time.
MaxRefetches == 2

\* setTimeout(..., 30 * 1000) of refreshAllStates, in ms.
REFRESH_FALLBACK == 30000

\* Ids that are not array indices, numbered in the order they are handed out.
UuidExecIds(n) == { <<"uuid", k>> : k \in 1..n }

\* An id that reads as an array index, the smallest one that by itself
\* makes the length reach EXEC_QUEUE_MAX.
IndexExecIds == { <<"index", EXEC_QUEUE_MAX - 1>> }

ExecIds ==
    UuidExecIds(Max({MaxPoolExecs, MaxTimedExecs, MaxTrackedExecs, MaxPolledExecs,
                     MaxSessionExecs, MaxListenerExecs}))
        \cup IndexExecIds

Callers == 1..MaxCallers

\* The remote service never hands out an id twice.
IsFresh(id) ==
    /\ id \notin issued
    /\ id[1] = "uuid" => \A k \in 1..(id[2] - 1) : <<"uuid", k>> \in issued

\* Array length after executionPool[id] = execution.
LengthAfterSet(len, id) ==
    IF id[1] = "index" /\ id[2] >= len THEN id[2] + 1 ELSE len

\* this.executionPool.length: the Array length, not the number of keys.
PoolSize(pool, len) == len

\* Mutation: the pool is always reported as holding an execution.
hasExecution_Always(pool) == TRUE

\* hasExecution(): Object.keys(this.executionPool).length > 0
hasExecution(pool) == pool # {}

\* The state events of the remote service: newState and timeToNextState.
\* timeToNextState = -1 marks the last event of an execution; the tracker
\* reads nothing else of an event to decide whether to keep the execution.
EventKinds ==
    { [newState |-> "IN_PROGRESS", timeToNextState |-> 0],
      [newState |-> "COMPLETED", timeToNextState |-> -1] }

\* Every pairing of a running or ended state with the two markers.
AllEventKinds ==
    { [newState |-> s, timeToNextState |-> t] :
      s \in {"IN_PROGRESS", "COMPLETED", "FAILED"}, t \in {0, -1} }

\* ExecutionStateChangedEvent of the kinds of set kinds for the ids of set ids.
ExecEvents(ids, kinds) ==
    { [name |-> "ExecutionStateChangedEvent", execId |-> id,
       newState |-> k.newState, timeToNextState |-> k.timeToNextState] :
      id \in ids, k \in kinds }

\* DeviceStateChangedEvent for the deviceURLs of urls with the states of lists.
DeviceEvents(urls, lists) ==
    { [name |-> "DeviceStateChangedEvent", deviceURL |-> u, deviceStates |-> l] :
      u \in urls, l \in lists }

\* The answers to a fetch: lists of at most n events.
Batches(events, n) == UNION { [1..k -> events] : k \in 0..n }

\* The deviceURL of the Device object whose states are kept (PART 1b).
WatchedURL == [base |-> "A", comp |-> 1]

\* What the observer records for every exec id, and of the poller.
TrackInit ==
    [ age        |-> [id \in ExecIds |-> 0],         \* ms since accepted, while tracked
      timedOutAt |-> [id \in ExecIds |-> NoTimer],   \* age at the TIMED_OUT notification
      removedBy  |-> [id \in ExecIds |-> "none"],    \* "event" or "timeout"
      removedAs  |-> {},    \* <<id, newState>> of the event that removed id
      ended      |-> {},    \* ids notified COMPLETED or FAILED by an event
      skipped    |-> 0,                              \* events of the last answer never dispatched
      watching   |-> FALSE,                          \* the interval ticks are observed
      switchedAndFetched |-> FALSE,   \* a tick has changed the period and started a fetch
      heldTick   |-> FALSE,           \* a tick has found fetchLock set and started no fetch
      escaped    |-> FALSE,                          \* a pollingTask() promise was rejected
      rejected   |-> {},      \* <<c, error>>: the promise of execute() call c is rejected with error
      refreshed  |-> {},      \* the deviceURLs the last refreshDevices() gave fresh states
      lockedBy   |-> 0,       \* the refreshAllStates() call that set refreshLock last
      completed  |-> {} ]     \* the calls whose completion event was received

\* The poller's fields, as one value.
Poller ==
    [ eventPollingPeriod |-> eventPollingPeriod,
      pollingTaskId      |-> pollingTaskId,
      fetchLock          |-> fetchLock,
      fetchPc            |-> fetchPc,
      fetching           |-> fetching,
      listenerId         |-> listenerId ]

SetPoller(p) ==
    /\ eventPollingPeriod' = p.eventPollingPeriod
    /\ pollingTaskId' = p.pollingTaskId
    /\ fetchLock' = p.fetchLock
    /\ fetchPc' = p.fetchPc
    /\ fetching' = p.fetching
    /\ listenerId' = p.listenerId

\* fetchEvents() returns, and pollingTask() goes on: this.fetchLock = false.
EndFetch(p) ==
    [p EXCEPT !.fetchPc = "idle", !.fetchLock = FALSE, !.fetching = @ - 1]

\* fetchEvents() after its fetch step: with no listener it goes on to
\* register one; otherwise it returns and pollingTask() releases the lock.
\* Mutation: a registration is issued whether or not a handle is held.
HoldsNoHandle_Always(id) == TRUE

\* this.listenerId === null
HoldsNoHandle(id) == id = NoListener

FetchEventsTail(p) ==
    IF HoldsNoHandle(p.listenerId)
    THEN [p EXCEPT !.fetchPc = "register"]
    ELSE EndFetch(p)

\* fetchEvents() up to its first await.
fetchEvents(p) ==
    IF p.listenerId # NoListener
    THEN [p EXCEPT !.fetchPc = "fetch"]
    ELSE FetchEventsTail(p)

\* Mutation: a tick fetches whether or not fetchLock is set.
MayFetch_Always(lock) == TRUE

\* else if (!this.fetchLock)
MayFetch(lock) == ~lock

\* Mutation: a changed period re-arms the interval without running
\* pollingTask().
RunAtOnce_Never(p) == FALSE

\* this.pollingTask(): the run that follows setInterval in setPollingTaskPeriod.
RunAtOnce(p) == TRUE

RECURSIVE setPollingTaskPeriod(_, _, _)
RECURSIVE pollingTask(_, _)

\* pollingTask() up to its first await; busy: hasExecution().
pollingTask(p, busy) ==
    IF p.eventPollingPeriod # PollingPeriod /\ ~busy
    THEN setPollingTaskPeriod(p, PollingPeriod, busy)
    ELSE IF MayFetch(p.fetchLock)
         THEN fetchEvents([p EXCEPT !.fetchLock = TRUE, !.fetching = @ + 1])
         ELSE p

\* setPollingTaskPeriod(period): a changed period re-arms the interval and
\* runs pollingTask() at once; period 0 stops polling and drops the listener.
setPollingTaskPeriod(p, period, busy) ==
    IF period = p.eventPollingPeriod
    THEN p
    ELSE IF period > 0
         THEN LET armed == [p EXCEPT !.eventPollingPeriod = period,
                                     !.pollingTaskId = TRUE]
              IN  IF RunAtOnce(armed) THEN pollingTask(armed, busy) ELSE armed
         ELSE [p EXCEPT !.eventPollingPeriod = period,
                        !.pollingTaskId = FALSE,
                        !.listenerId = NoListener]

\* Mutation: the timeout timer is armed with half the delay.
ArmTimeout_Half(timers, id) == [timers EXCEPT ![id] = EXEC_TIMEOUT \div 2]

\* setTimeout(() => {...}, EXEC_TIMEOUT)
ArmTimeout(timers, id) == [timers EXCEPT ![id] = EXEC_TIMEOUT]

NotExec == UNCHANGED <<topoVars, authVars, devVars, runVars, refVars, cancelPc>>

\* execute() up to its first await: with a full pool the call waits 10 s,
\* otherwise POST /exec/<oid> is issued.
ExecuteBody(c) ==
    /\ IF PoolSize(executionPool, poolLength) >= EXEC_QUEUE_MAX
       THEN /\ callPc' = [callPc EXCEPT ![c] = "delay"]
            /\ callTimer' = [callTimer EXCEPT ![c] = POSTPONE_DELAY]
       ELSE /\ callPc' = [callPc EXCEPT ![c] = "post"]
            /\ callTimer' = [callTimer EXCEPT ![c] = NoTimer]
    /\ track' = [track EXCEPT !.rejected = { x \in @ : x[1] # c }]
    /\ UNCHANGED <<connected, executionPool, poolLength, issued, execTimer,
                   eventPollingPeriod, pollingTaskId, refreshTaskId, fetchLock,
                   fetchPc, fetching, fetchTimer, listenerId, nextListener>>

\* The application calls execute(oid, execution).
Execute(c) ==
    /\ callPc[c] \in {"idle", "done", "failed"}
    /\ ExecuteBody(c)
    /\ NotExec

\* The postponement is over: return await this.execute(oid, execution).
DelayElapsed(c) ==
    /\ callPc[c] = "delay"
    /\ callTimer[c] = 0
    /\ ExecuteBody(c)
    /\ NotExec

\* execute() after POST /exec/<oid> is answered with exec id id: the execution is tracked,
\* polling switches to the execution period (which runs pollingTask() at
\* once when the period changes), the timeout timer is armed, and the id
\* is returned.
ExecAccepted(c, id) ==
    /\ callPc[c] = "post"
    /\ IsFresh(id)
    /\ issued' = issued \cup {id}
    /\ executionPool' = executionPool \cup {id}
    /\ poolLength' = LengthAfterSet(poolLength, id)
    /\ SetPoller(setPollingTaskPeriod(Poller, ExecPollingPeriod,
                                      hasExecution(executionPool \cup {id})))
    /\ execTimer' = ArmTimeout(execTimer, id)
    /\ callPc' = [callPc EXCEPT ![c] = "done"]
    /\ UNCHANGED <<connected, callTimer, refreshTaskId, fetchTimer, nextListener,
                   track>>
    /\ NotExec

\* The answer reaches a client that is connected.
ExecResponse(c, id) ==
    /\ connected
    /\ ExecAccepted(c, id)

\* The application calls execute(oid, execution) on a connected client: the
\* POST leaves at once.
ExecuteConnected(c) ==
    /\ connected
    /\ Execute(c)

\* The answer of a POST that left before the session was lost reaches the
\* client after the 'disconnect' notification of another request's 401.
LateExecResponse(c, id) ==
    /\ ~connected
    /\ ExecAccepted(c, id)

\* The errors POST /exec/<oid> fails with.
ExecErrors == {"400", "other"}

\* Mutation: the error of the request is thrown as it is.
ExecutionError_Raw(state, error) == [state |-> "none", message |-> error]

\* class ExecutionError extends Error: super(error); this.state = state
ExecutionError(state, error) == [state |-> state, message |-> error]

\* POST /exec/<oid> fails: throw new ExecutionError(FAILED, error).
ExecError(c, error) ==
    /\ callPc[c] = "post"
    /\ callPc' = [callPc EXCEPT ![c] = "failed"]
    /\ track' = [track EXCEPT !.rejected = @ \cup {<<c, ExecutionError("FAILED", error)>>}]
    /\ UNCHANGED <<connected, executionPool, poolLength, issued, execTimer,
                   callTimer, eventPollingPeriod, pollingTaskId, refreshTaskId,
                   fetchLock, fetchPc, fetching, fetchTimer, listenerId, nextListener>>
    /\ NotExec

\* Mutation: the timer notifies TIMED_OUT without looking the execution up.
ExecTimeoutFires_Unguarded(id) ==
    /\ execTimer[id] = 0
    /\ execTimer' = [execTimer EXCEPT ![id] = NoTimer]
    /\ executionPool' = executionPool \ {id}
    /\ track' = [track EXCEPT !.timedOutAt[id] = track.age[id],
                              !.removedBy[id] = "timeout"]
    /\ UNCHANGED <<connected, poolLength, issued, callPc, callTimer,
                   eventPollingPeriod, pollingTaskId, refreshTaskId, fetchLock,
                   fetchPc, fetching, fetchTimer, listenerId, nextListener>>
    /\ NotExec

\* The timeout timer of id fires: an execution still tracked is notified
\* TIMED_OUT and deleted from the pool.
ExecTimeoutFires(id) ==
    /\ execTimer[id] = 0
    /\ execTimer' = [execTimer EXCEPT ![id] = NoTimer]
    /\ IF id \in executionPool
       THEN /\ executionPool' = executionPool \ {id}
            /\ track' = [track EXCEPT !.timedOutAt[id] = track.age[id],
                                      !.removedBy[id] = "timeout"]
       ELSE UNCHANGED <<executionPool, track>>
    /\ UNCHANGED <<connected, poolLength, issued, callPc, callTimer,
                   eventPollingPeriod, pollingTaskId, refreshTaskId, fetchLock,
                   fetchPc, fetching, fetchTimer, listenerId, nextListener>>
    /\ NotExec

\* restClient emits 'connect'.
RestConnect ==
    /\ ~connected
    /\ connected' = TRUE
    /\ refreshTaskId' = TRUE
    /\ SetPoller(setPollingTaskPeriod(Poller, PollingPeriod, hasExecution(executionPool)))
    /\ UNCHANGED <<executionPool, poolLength, issued, execTimer, callPc, callTimer,
                   fetchTimer, nextListener, track>>
    /\ NotExec

\* restClient emits 'disconnect'.
RestDisconnect ==
    /\ connected
    /\ connected' = FALSE
    /\ refreshTaskId' = FALSE
    /\ SetPoller(setPollingTaskPeriod(Poller, 0, hasExecution(executionPool)))
    /\ UNCHANGED <<executionPool, poolLength, issued, execTimer, callPc, callTimer,
                   fetchTimer, nextListener, track>>
    /\ NotExec

\* The polling interval ticks.
PollingTick ==
    /\ pollingTaskId
    /\ LET p == pollingTask(Poller, hasExecution(executionPool))
       IN  /\ SetPoller(p)
           /\ track' =
                IF ~track.watching THEN track
                ELSE [track EXCEPT
                        !.switchedAndFetched =
                            @ \/ (/\ p.eventPollingPeriod # eventPollingPeriod
                                  /\ p.fetching > fetching),
                        !.heldTick = @ \/ (fetchLock /\ p.fetching = fetching)]
    /\ UNCHANGED <<connected, executionPool, poolLength, issued, execTimer, callPc,
                   callTimer, refreshTaskId, fetchTimer, nextListener>>
    /\ NotExec

\* Mutation: no event deletes an execution.
IsLastEvent_Never(event) == FALSE

\* Mutation: an execution is deleted when the event reports an ended state.
IsLastEvent_ByState(event) == event.newState \in {"COMPLETED", "FAILED"}

\* event.timeToNextState === -1
IsLastEvent(event) == event.timeToNextState = -1

\* One ExecutionStateChangedEvent: a tracked execution is notified the new
\* state, and deleted when timeToNextState is -1.
HandleExecutionEvent(st, event) ==
    IF event.execId \in st.pool
    THEN LET st1 == IF event.newState \in {"COMPLETED", "FAILED"}
                    THEN [st EXCEPT !.track.ended = @ \cup {event.execId}]
                    ELSE st
         IN  IF IsLastEvent(event)
             THEN [st1 EXCEPT !.pool = @ \ {event.execId},
                              !.track.removedBy[event.execId] = "event",
                              !.track.removedAs = @ \cup {<<event.execId, event.newState>>},
                              !.track.age[event.execId] = 0]
             ELSE st1
    ELSE st

\* One DeviceStateChangedEvent: this.devices[event.deviceURL].updateStates(...).
\* For a deviceURL that is not registered the lookup gives undefined and the
\* call throws a TypeError.
HandleDeviceEvent(st, event) ==
    IF devices[event.deviceURL] = NoDevice
    THEN [st EXCEPT !.threw = TRUE]
    ELSE IF event.deviceURL = WatchedURL
         THEN [st EXCEPT !.dev = updateStates(@, event.deviceStates)]
         ELSE st

\* A RefreshAllDevicesStatesCompletedEvent: this.refreshLock = false, and
\* this.refreshDevices() is called and not awaited.
HandleRefreshEvent(st, event) ==
    [st EXCEPT !.refreshLock = FALSE, !.refetching = @ + 1,
               !.track.completed = IF st.refreshLock THEN @ \cup {st.track.lockedBy} ELSE @]

\* One round of the for loop of fetchEvents.
\* st: [pool, track, dev, refreshLock, refetching, threw, dispatched].
HandleEvent(st, event) ==
    LET st1 == [st EXCEPT !.dispatched = @ + 1]
    IN  IF event.name = "DeviceStateChangedEvent"
        THEN HandleDeviceEvent(st1, event)
        ELSE IF event.name = "ExecutionStateChangedEvent"
             THEN HandleExecutionEvent(st1, event)
             ELSE HandleRefreshEvent(st1, event)

\* for (const event of data): an exception leaves the loop.
RECURSIVE HandleEvents(_, _, _)
HandleEvents(st, data, i) ==
    IF i > Len(data) \/ st.threw THEN st
    ELSE HandleEvents(HandleEvent(st, data[i]), data, i + 1)

\* The catch block of the fetch step is given a TypeError: error.includes
\* is no function, the block throws in turn, fetchEvents() and pollingTask()
\* are rejected, and this.fetchLock = false is never reached.
CatchThrows(p) == [p EXCEPT !.fetchPc = "idle", !.fetching = @ - 1]

\* The fetch is answered with the events of data.
FetchResponse(data) ==
    /\ fetchPc = "fetch"
    /\ connected
    /\ \E r \in {HandleEvents([pool |-> executionPool, track |-> track, dev |-> Device,
                               refreshLock |-> refreshLock, refetching |-> refetching,
                               threw |-> FALSE, dispatched |-> 0], data, 1)} :
           /\ r.refetching <= MaxRefetches
           /\ refreshLock' = r.refreshLock
           /\ refetching' = r.refetching
           /\ executionPool' = r.pool
           /\ track' = [r.track EXCEPT !.skipped = Len(data) - r.dispatched,
                                       !.escaped = @ \/ r.threw]
           /\ SetDevice(r.dev)
           /\ SetPoller(IF r.threw THEN CatchThrows(Poller) ELSE FetchEventsTail(Poller))
    /\ UNCHANGED <<connected, poolLength, issued, execTimer, callPc, callTimer,
                   refreshTaskId, fetchTimer, nextListener, cancelPc>>
    /\ UNCHANGED <<topoVars, authVars, runVars, refreshPc, refreshTimer>>

\* What a failing fetch or registration reports.
PollErrors == {"400", "401", "other"}

\* Mutation: only a 400 counts as a lost listener.
IsListenerError_Only400(error) == error = "400"

\* error.includes('400') || error.includes('401')
IsListenerError(error) == error \in {"400", "401"}

\* The fetch fails: a 400 or 401 drops the listener and goes on to
\* register; any other error holds the poller for 10 s.
FetchError(error) ==
    /\ fetchPc = "fetch"
    /\ IF IsListenerError(error)
       THEN /\ SetPoller(FetchEventsTail([Poller EXCEPT !.listenerId = NoListener]))
            /\ UNCHANGED fetchTimer
       ELSE /\ SetPoller([Poller EXCEPT !.fetchPc = "fetchDelay"])
            /\ fetchTimer' = POLL_ERROR_DELAY
    /\ UNCHANGED <<connected, executionPool, poolLength, issued, execTimer, callPc,
                   callTimer, refreshTaskId, nextListener, track>>
    /\ NotExec

\* The 10 s after a failed fetch are over.
FetchDelayElapsed ==
    /\ fetchPc = "fetchDelay"
    /\ fetchTimer = 0
    /\ fetchTimer' = NoTimer
    /\ SetPoller(FetchEventsTail(Poller))
    /\ UNCHANGED <<connected, executionPool, poolLength, issued, execTimer, callPc,
                   callTimer, refreshTaskId, nextListener, track>>
    /\ NotExec

\* POST /events/register is answered: this.listenerId = data.id.
RegisterResponse ==
    /\ fetchPc = "register"
    /\ connected
    /\ nextListener <= MaxListeners
    /\ nextListener' = nextListener + 1
    /\ SetPoller(EndFetch([Poller EXCEPT !.listenerId = nextListener]))
    /\ UNCHANGED <<connected, executionPool, poolLength, issued, execTimer, callPc,
                   callTimer, refreshTaskId, fetchTimer, track>>
    /\ NotExec

\* The registration fails: the poller is held for 10 s.
RegisterError ==
    /\ fetchPc = "register"
    /\ SetPoller([Poller EXCEPT !.fetchPc = "registerDelay"])
    /\ fetchTimer' = POLL_ERROR_DELAY
    /\ UNCHANGED <<connected, executionPool, poolLength, issued, execTimer, callPc,
                   callTimer, refreshTaskId, nextListener, track>>
    /\ NotExec

\* The 10 s after a failed registration are over: fetchEvents() returns.
RegisterDelayElapsed ==
    /\ fetchPc = "registerDelay"
    /\ fetchTimer = 0
    /\ fetchTimer' = NoTimer
    /\ SetPoller(EndFetch(Poller))
    /\ UNCHANGED <<connected, executionPool, poolLength, issued, execTimer, callPc,
                   callTimer, refreshTaskId, nextListener, track>>
    /\ NotExec

\* Mutation: cancelExecution also drops the execution from the pool.
CancelExecution_Forget(id) ==
    /\ id \notin cancelPc
    /\ cancelPc' = cancelPc \cup {id}
    /\ executionPool' = executionPool \ {id}
    /\ UNCHANGED <<connected, poolLength, issued, execTimer, callPc, callTimer,
                   eventPollingPeriod, pollingTaskId, refreshTaskId, fetchLock, fetchPc,
                   fetching, fetchTimer, listenerId, nextListener, track>>
    /\ UNCHANGED <<topoVars, authVars, devVars, runVars, refVars>>

\* The application calls cancelExecution(execId):
\* DELETE /exec/current/setup/<execId> is issued.
CancelExecution(id) ==
    /\ id \notin cancelPc
    /\ cancelPc' = cancelPc \cup {id}
    /\ UNCHANGED <<connected, executionPool, poolLength, issued, execTimer, callPc,
                   callTimer, eventPollingPeriod, pollingTaskId, refreshTaskId,
                   fetchLock, fetchPc, fetching, fetchTimer, listenerId, nextListener,
                   track>>
    /\ UNCHANGED <<topoVars, authVars, devVars, runVars, refVars>>

\* The DELETE is answered or fails: cancelExecution returns or throws.
CancelReturns(id) ==
    /\ id \in cancelPc
    /\ cancelPc' = cancelPc \ {id}
    /\ UNCHANGED <<connected, executionPool, poolLength, issued, execTimer, callPc,
                   callTimer, eventPollingPeriod, pollingTaskId, refreshTaskId,
                   fetchLock, fetchPc, fetching, fetchTimer, listenerId, nextListener,
                   track>>
    /\ UNCHANGED <<topoVars, authVars, devVars, runVars, refVars>>

ExecArmed ==
    ({ execTimer[id] : id \in ExecIds } \cup { callTimer[c] : c \in Callers }
        \cup { refreshTimer[r] : r \in RefreshCalls }
        \cup {fetchTimer, pendingUpdateTimer}) \ {NoTimer}

\* d ms pass; no armed timer is overrun.  The observer's clocks run for the
\* tracked executions and for the open burst of state updates.
ExecAdvance(d) ==
    /\ ExecArmed # {}
    /\ \A t \in ExecArmed : d <= t
    /\ execTimer' = [id \in ExecIds |->
                        IF execTimer[id] = NoTimer THEN NoTimer ELSE execTimer[id] - d]
    /\ callTimer' = [c \in Callers |->
                        IF callTimer[c] = NoTimer THEN NoTimer ELSE callTimer[c] - d]
    /\ fetchTimer' = IF fetchTimer = NoTimer THEN NoTimer ELSE fetchTimer - d
    /\ track' = [track EXCEPT !.age = [id \in ExecIds |->
                        IF id \in executionPool /\ track.age[id] <= EXEC_TIMEOUT
                        THEN track.age[id] + d ELSE track.age[id]]]
    /\ UNCHANGED <<connected, executionPool, poolLength, issued, callPc,
                   eventPollingPeriod, pollingTaskId, refreshTaskId, fetchLock,
                   fetchPc, fetching, listenerId, nextListener>>
    /\ pendingUpdateTimer' = IF pendingUpdateTimer = NoTimer THEN NoTimer
                           ELSE pendingUpdateTimer - d
    /\ seen' = IF pendingUpdateTimer = NoTimer THEN seen
               ELSE [seen EXCEPT !.sinceLast = IF @ + d > DEBOUNCE THEN DEBOUNCE ELSE @ + d]
    /\ refreshTimer' = [r \in RefreshCalls |->
                          IF refreshTimer[r] = NoTimer THEN NoTimer ELSE refreshTimer[r] - d]
    /\ UNCHANGED <<states, pendingUpdate, cancelPc>>
    /\ UNCHANGED <<topoVars, authVars, runVars, refreshLock, refreshPc, refetching>>

\* new OverkizClient(log, config): nothing tracked, polling disabled.
ExecInit ==
    /\ connected = FALSE
    /\ executionPool = {}
    /\ poolLength = 0
    /\ issued = {}
    /\ execTimer = [id \in ExecIds |-> NoTimer]
    /\ callPc = [c \in Callers |-> "idle"]
    /\ callTimer = [c \in Callers |-> NoTimer]
    /\ eventPollingPeriod = 0
    /\ pollingTaskId = FALSE
    /\ refreshTaskId = FALSE
    /\ fetchLock = FALSE
    /\ fetchPc = "idle"
    /\ fetching = 0
    /\ fetchTimer = NoTimer
    /\ listenerId = NoListener
    /\ nextListener = 1
    /\ cancelPc = {}
    /\ track = TrackInit

(***************************************************************************)
(* PART 4.  The full refresh: refreshTask, refreshAllStates and            *)
(* refreshDevices (Client.ts).                                             *)
(***************************************************************************)
RefreshFrame ==
    UNCHANGED <<topoVars, authVars, execVars, devVars, runVars>>

\* refreshAllStates() up to its await: this.refreshLock = true and
\* POST /setup/devices/states/refresh is issued.  Nothing is tested before.
refreshAllStates(r) ==
    /\ refreshLock' = TRUE
    /\ refreshPc' = [refreshPc EXCEPT ![r] = "post"]
    /\ track' = [track EXCEPT !.lockedBy = r, !.completed = @ \ {r}]
    /\ UNCHANGED <<refreshTimer, refetching>>
    /\ UNCHANGED <<connected, executionPool, poolLength, issued, execTimer, callPc,
                   callTimer, eventPollingPeriod, pollingTaskId, refreshTaskId,
                   fetchLock, fetchPc, fetching, fetchTimer, listenerId, nextListener,
                   cancelPc>>
    /\ UNCHANGED <<topoVars, authVars, devVars, runVars>>

\* Call r has no request and no timer pending.
FreeCall(r) == refreshPc[r] \in {"idle", "failed", "over"}

\* The application calls refreshAllStates().
RefreshAllStates(r) ==
    /\ FreeCall(r)
    /\ refreshAllStates(r)

\* The refresh interval ticks: refreshTask() awaits refreshAllStates() and
\* logs what it throws.
RefreshTick(r) ==
    /\ refreshTaskId
    /\ FreeCall(r)
    /\ refreshAllStates(r)

\* setTimeout(() => {...}, 30 * 1000)
ArmFallback(timers, r) == [timers EXCEPT ![r] = REFRESH_FALLBACK]

\* The refresh request is answered: the fallback timer is armed and
\* refreshAllStates() returns.
RefreshPosted(r) ==
    /\ refreshPc[r] = "post"
    /\ connected
    /\ refreshPc' = [refreshPc EXCEPT ![r] = "armed"]
    /\ refreshTimer' = ArmFallback(refreshTimer, r)
    /\ UNCHANGED <<refreshLock, refetching>>
    /\ RefreshFrame

\* The refresh request fails: the await throws, and refreshAllStates() is
\* left before setTimeout is reached.
RefreshError(r) ==
    /\ refreshPc[r] = "post"
    /\ refreshPc' = [refreshPc EXCEPT ![r] = "failed"]
    /\ UNCHANGED <<refreshLock, refreshTimer, refetching>>
    /\ RefreshFrame

\* The fallback timer of call r fires: with refreshLock still set it is
\* cleared and refreshDevices() is called.
RefreshFallbackFires(r) ==
    /\ refreshPc[r] = "armed"
    /\ refreshTimer[r] = 0
    /\ refreshPc' = [refreshPc EXCEPT ![r] = "over"]
    /\ refreshTimer' = [refreshTimer EXCEPT ![r] = NoTimer]
    /\ IF refreshLock
       THEN /\ refetching < MaxRefetches
            /\ refreshLock' = FALSE
            /\ refetching' = refetching + 1
       ELSE UNCHANGED <<refreshLock, refetching>>
    /\ RefreshFrame

\* GET /setup/devices of a refreshDevices() call is answered with the
\* listing: attachDevices registers what is new, and every returned device
\* the registry knows is given its fresh states.
RefetchResponse(fresh) ==
    /\ refetching > 0
    /\ connected
    /\ created + Len(setupData) <= MaxCreated
    /\ refetching' = refetching - 1
    /\ \E r \in {attachDevices(setupData, devices, created)} :
          /\ devices' = r.devices
          /\ created' = created + Len(setupData)
          /\ physicalDevices' = r.physicalDevices
          /\ sensors' = r.sensors
          /\ parent' = r.parent
          /\ \E returned \in {{ setupData[r.physicalDevices[i]].deviceURL :
                                    i \in 1..Len(r.physicalDevices) }} :
                /\ track' = [track EXCEPT !.refreshed =
                                { u \in returned : r.devices[u] # NoDevice }]
                /\ IF WatchedURL \in returned
                   THEN SetDevice(updateStates(Device, fresh))
                   ELSE UNCHANGED devVars
    /\ UNCHANGED <<setupData, topoPc, refreshLock, refreshPc, refreshTimer>>
    /\ UNCHANGED <<connected, executionPool, poolLength, issued, execTimer, callPc,
                   callTimer, eventPollingPeriod, pollingTaskId, refreshTaskId,
                   fetchLock, fetchPc, fetching, fetchTimer, listenerId, nextListener,
                   cancelPc>>
    /\ UNCHANGED <<authVars, runVars>>

\* GET /setup/devices of a refreshDevices() call fails.
RefetchError ==
    /\ refetching > 0
    /\ refetching' = refetching - 1
    /\ UNCHANGED <<refreshLock, refreshPc, refreshTimer>>
    /\ RefreshFrame

\* new OverkizClient(log, config): no refresh requested.
RefreshInit ==
    /\ refreshLock = FALSE
    /\ refreshPc = [r \in RefreshCalls |-> "idle"]
    /\ refreshTimer = [r \in RefreshCalls |-> NoTimer]
    /\ refetching = 0

(***************************************************************************)
(* Specifications.  Each one runs one part; the other parts stay as they   *)
(* are after construction.                                                 *)
(***************************************************************************)
\* attachDevices on every bounded device list.
TopoNext ==
    \/ GetDevices

InitTopo == TopoInit /\ AuthInit /\ restorePc = "none" /\ endpoint = "direct" /\ ExecInit /\ DeviceIdle /\ RunInit /\ RefreshInit

SpecTopo == InitTopo /\ [][TopoNext]_vars

\* The kinds of the devices listed again: a heat pump and its sensors.
RefetchTypes ==
    { t \in DeviceTypes : t.controllableName \in
          {"io:AtlanticPassAPCHeatPumpMainComponent",
           "io:AtlanticPassAPCZoneTemperatureSensor"} }

\* The listings of up to n devices of the kinds listed again.
Listings(n) ==
    UNION { { DeviceList(urls, types) : urls \in URLLists(k), types \in [1..k -> RefetchTypes] } :
            k \in 0..n }

\* Listing calls repeated, each answered with any listing.
RefetchNext ==
    \/ GetDevices
    \/ \E data \in Listings(MaxDevices) : GetDevicesAgain(data)

InitRefetch ==
    /\ setupData \in Listings(MaxDevices)
    /\ devices = [u \in DeviceURLs |-> NoDevice]
    /\ created = 0
    /\ topoPc = "ready"
    /\ physicalDevices = << >>
    /\ sensors = << >>
    /\ parent = << >>
    /\ AuthInit /\ restorePc = "none" /\ endpoint = "direct" /\ ExecInit /\ DeviceIdle /\ RunInit /\ RefreshInit

SpecRefetch == InitRefetch /\ [][RefetchNext]_vars

\* The direct session client under concurrent requests.
AuthNext ==
    \/ \E r \in Requests, reconnect \in BOOLEAN : Request(r, reconnect, MaxAttempts)
    \/ \E r \in Requests : AwaitResolved(r)
    \/ \E r \in Requests : AwaitRejected(r, MaxAttempts)
    \/ \E r \in Requests : HttpOk(r)
    \/ \E r \in Requests : Http401(r, MaxAttempts)
    \/ \E r \in Requests : HttpError(r)
    \/ \E a \in Promises : LoginOk(a)
    \/ \E a \in Promises, status \in AuthFailures : AuthFail(a, status)
    \/ \E a \in Promises : LockTimerFires(a)
    \/ \E d \in AuthTimeSteps : AuthAdvance(d)

InitAuth == AuthInit /\ restorePc = "none" /\ endpoint = "direct" /\ TopoIdle /\ ExecInit /\ DeviceIdle /\ RunInit /\ RefreshInit

SpecAuth == InitAuth /\ [][AuthNext]_vars

\* Both variants of the session client, over fewer authentication attempts.
LockdownNext ==
    \/ \E r \in Requests, reconnect \in BOOLEAN :
          Request(r, reconnect, MaxLockdownAttempts)
    \/ \E r \in Requests : AwaitResolved(r)
    \/ \E r \in Requests : AwaitRejected(r, MaxLockdownAttempts)
    \/ \E r \in Requests : HttpOk(r)
    \/ \E r \in Requests : Http401(r, MaxLockdownAttempts)
    \/ \E r \in Requests : HttpError(r)
    \/ \E a \in Promises : TokenOk(a)
    \/ \E a \in Promises : JwtOk(a)
    \/ \E a \in Promises : LoginOk(a)
    \/ \E a \in Promises, status \in AuthFailures : AuthFail(a, status)
    \/ \E a \in Promises : LockTimerFires(a)
    \/ \E d \in AuthTimeSteps : AuthAdvance(d)

InitLockdown == AuthInit /\ restorePc = "none" /\ endpoint \in {"direct", "jwt"} /\ TopoIdle /\ ExecInit /\ DeviceIdle /\ RunInit /\ RefreshInit

SpecLockdown == InitLockdown /\ [][LockdownNext]_vars

\* The direct session client in a browser: requests are made while the
\* constructor's GET /authenticated is not answered yet.
RestoreNext ==
    \/ \E r \in Requests, reconnect \in BOOLEAN :
          Request(r, reconnect, MaxRestoreAttempts)
    \/ \E r \in Requests : AwaitResolved(r)
    \/ \E r \in Requests : AwaitRejected(r, MaxRestoreAttempts)
    \/ \E r \in Requests : HttpOk(r)
    \/ \E r \in Requests : Http401(r, MaxRestoreAttempts)
    \/ \E r \in Requests : HttpError(r)
    \/ \E a \in Promises : LoginOk(a)
    \/ \E a \in Promises, status \in AuthFailures : AuthFail(a, status)
    \/ \E authenticated \in BOOLEAN : RestoreSession(authenticated, MaxRestoreAttempts)
    \/ RestoreFailed

\* new CloudApiClient(host) where window is defined: isAuthenticated is
\* undefined, which every test of the flag reads as false, and
\* GET /authenticated is under way.
InitRestore ==
    /\ AuthInit /\ restorePc = "pending" /\ endpoint = "direct"
    /\ TopoIdle /\ ExecInit /\ DeviceIdle /\ RunInit /\ RefreshInit

SpecRestore == InitRestore /\ [][RestoreNext]_vars

\* The tracked execution the remote service completes next: executions
\* complete in the order they were submitted.
OldestTracked ==
    { id \in executionPool :
        \A other \in executionPool : id[2] <= other[2] }

\* A burst of submissions on a connected client, with no time passing: the
\* remote service accepts every batch and hands out ids that are not array
\* indices.
PoolNext ==
    \/ \E c \in Callers : Execute(c)
    \/ \E c \in Callers, id \in UuidExecIds(MaxPoolExecs) : ExecResponse(c, id)
    \/ RestConnect
    \/ PollingTick
    \/ \E id \in OldestTracked :
          FetchResponse(<<[name |-> "ExecutionStateChangedEvent", execId |-> id,
                           newState |-> "COMPLETED", timeToNextState |-> -1]>>)
    \/ FetchResponse(<< >>)
    \/ RegisterResponse

InitExec == ExecInit /\ TopoIdle /\ AuthInit /\ restorePc = "none" /\ endpoint = "direct" /\ DeviceIdle /\ RunInit /\ RefreshInit

SpecPool == InitExec /\ [][PoolNext]_vars

\* The steps in which time passes in the timed specification.
TimeoutSteps == {60000}

\* The tracker and the poller over two minutes and more, with lost
\* connections and every state event.
TimeoutNext ==
    \/ \E c \in Callers : Execute(c)
    \/ \E c \in Callers, id \in UuidExecIds(MaxTimedExecs) : ExecResponse(c, id)
    \/ \E c \in Callers : ExecError(c, "other")
    \/ \E id \in ExecIds : ExecTimeoutFires(id)
    \/ RestConnect
    \/ RestDisconnect
    \/ PollingTick
    \/ \E data \in Batches(ExecEvents(issued, EventKinds), MaxBatch) : FetchResponse(data)
    \/ \E error \in {"400", "401"} : FetchError(error)
    \/ RegisterResponse
    \/ \E d \in TimeoutSteps : ExecAdvance(d)

SpecTimeout == InitExec /\ [][TimeoutNext]_vars

\* The steps in which time passes while calls and the poller are held.
DelaySteps == {10000}

\* Postponed calls and a held poller: the remote service hands out an id
\* that reads as an array index, and fetches and registrations fail.
DelayNext ==
    \/ \E c \in Callers : Execute(c)
    \/ \E c \in Callers : DelayElapsed(c)
    \/ \E c \in Callers, id \in IndexExecIds : ExecResponse(c, id)
    \/ \E id \in ExecIds : ExecTimeoutFires(id)
    \/ RestConnect
    \/ PollingTick
    \/ FetchResponse(<< >>)
    \/ \E error \in PollErrors : FetchError(error)
    \/ FetchDelayElapsed
    \/ RegisterResponse
    \/ RegisterError
    \/ RegisterDelayElapsed
    \/ \E d \in DelaySteps : ExecAdvance(d)

SpecDelay == InitExec /\ [][DelayNext]_vars

\* The caller of the specifications that run one execute() call at a time.
FirstCaller == { c \in Callers : \A other \in Callers : c <= other }

\* The events of every kind for the ids handed out, each in an answer of
\* its own, and the answer without events.
TrackedBatches == {<< >>} \cup { <<event>> : event \in ExecEvents(issued, AllEventKinds) }

\* The tracker with every kind of state event, cancellations and the
\* timeout, on a connection that stays up.
TrackerNext ==
    \/ \E c \in FirstCaller : Execute(c)
    \/ \E c \in FirstCaller, id \in UuidExecIds(MaxTrackedExecs) : ExecResponse(c, id)
    \/ \E id \in UuidExecIds(MaxTrackedExecs) : ExecTimeoutFires(id)
    \/ \E id \in issued : CancelExecution(id)
    \/ \E id \in issued : CancelReturns(id)
    \/ RestConnect
    \/ PollingTick
    \/ \E data \in TrackedBatches : FetchResponse(data)
    \/ RegisterResponse
    \/ \E d \in TimeoutSteps : ExecAdvance(d)

SpecTracker == InitExec /\ [][TrackerNext]_vars

\* The device the listing call of the poller specification returned.
PolledDevice ==
    [deviceURL |-> WatchedURL, controllableName |-> "io:Other",
     widgetName |-> "Other", uiClass |-> "Other"]

\* The deviceURLs of the device events: the registered one and one that
\* getDevices() has not returned.
PolledURLs == { WatchedURL, [base |-> "B", comp |-> NoComponent] }

\* event.deviceStates of the device events.
PolledStates ==
    << [name |-> "core:ClosureState", type |-> INTEGER_TYPE, value |-> 1] >>

\* The events the poller is answered with: device events, and the last
\* event of the executions handed out.
PolledEvents ==
    DeviceEvents(PolledURLs, {PolledStates})
        \cup ExecEvents(issued, {[newState |-> "COMPLETED", timeToNextState |-> -1]})

\* The poller with device events and state events, lost connections and
\* lost listeners, with the ticks observed.
PollerNext ==
    \/ \E c \in FirstCaller : Execute(c)
    \/ \E c \in FirstCaller, id \in UuidExecIds(MaxPolledExecs) : ExecResponse(c, id)
    \/ RestConnect
    \/ RestDisconnect
    \/ PollingTick
    \/ \E data \in Batches(PolledEvents, MaxPolledBatch) : FetchResponse(data)
    \/ \E error \in {"400", "401"} : FetchError(error)
    \/ RegisterResponse

\* The client after getDevices() has returned PolledDevice.
InitPoller ==
    /\ LET r == attachDevices(<<PolledDevice>>, [u \in DeviceURLs |-> NoDevice], 0)
       IN  /\ setupData = <<PolledDevice>>
           /\ devices = r.devices
           /\ created = 1
           /\ topoPc = "done"
           /\ physicalDevices = r.physicalDevices
           /\ sensors = r.sensors
           /\ parent = r.parent
    /\ connected = FALSE
    /\ executionPool = {}
    /\ poolLength = 0
    /\ issued = {}
    /\ execTimer = [id \in ExecIds |-> NoTimer]
    /\ callPc = [c \in Callers |-> "idle"]
    /\ callTimer = [c \in Callers |-> NoTimer]
    /\ eventPollingPeriod = 0
    /\ pollingTaskId = FALSE
    /\ refreshTaskId = FALSE
    /\ fetchLock = FALSE
    /\ fetchPc = "idle"
    /\ fetching = 0
    /\ fetchTimer = NoTimer
    /\ listenerId = NoListener
    /\ nextListener = 1
    /\ cancelPc = {}
    /\ track = [TrackInit EXCEPT !.watching = TRUE]
    /\ AuthInit /\ restorePc = "none" /\ endpoint = "direct" /\ DeviceIdle /\ RunInit /\ RefreshInit

SpecPoller == InitPoller /\ [][PollerNext]_vars

\* The answers of the fetch while sessions come and go: nothing, or the
\* last event of an execution handed out.
SessionBatches ==
    {<< >>} \cup { <<event>> : event \in
                      ExecEvents(issued, {[newState |-> "COMPLETED", timeToNextState |-> -1]}) }

\* Sessions lost and restored while execute() calls and fetches are in
\* flight: an answer may reach the client after the 'disconnect'
\* notification that another request's 401 has caused.
SessionNext ==
    \/ \E c \in Callers : ExecuteConnected(c)
    \/ \E c \in Callers, id \in UuidExecIds(MaxSessionExecs) : ExecResponse(c, id)
    \/ \E c \in Callers, id \in UuidExecIds(MaxSessionExecs) : LateExecResponse(c, id)
    \/ \E c \in Callers, error \in ExecErrors : ExecError(c, error)
    \/ RestConnect
    \/ RestDisconnect
    \/ PollingTick
    \/ \E data \in SessionBatches : FetchResponse(data)
    \/ \E error \in {"400", "401"} : FetchError(error)
    \/ RegisterResponse

SpecSession == InitExec /\ [][SessionNext]_vars

\* The interval set by setInterval keeps firing while it is set.
SpecSessionLive == InitExec /\ [][SessionNext]_vars /\ WF_vars(PollingTick)

\* The steps in which time passes while the poller is held.
ListenerSteps == {POLL_ERROR_DELAY \div 2}

\* The poller and its listener: fetches and registrations that fail in
\* every way, sessions lost and restored, executions that change the
\* polling period, and time in steps of 5 s.
ListenerNext ==
    \/ \E c \in FirstCaller : Execute(c)
    \/ \E c \in FirstCaller, id \in UuidExecIds(MaxListenerExecs) : ExecResponse(c, id)
    \/ \E id \in ExecIds : ExecTimeoutFires(id)
    \/ RestConnect
    \/ RestDisconnect
    \/ PollingTick
    \/ FetchResponse(<< >>)
    \/ \E error \in PollErrors : FetchError(error)
    \/ FetchDelayElapsed
    \/ RegisterResponse
    \/ RegisterError
    \/ RegisterDelayElapsed
    \/ \E d \in ListenerSteps : ExecAdvance(d)

SpecListener == InitExec /\ [][ListenerNext]_vars

\* The steps in which time passes while a fallback timer runs.
RefreshSteps == {REFRESH_FALLBACK \div 2}

\* RefreshAllDevicesStatesCompletedEvent
RefreshEvents == { [name |-> "RefreshAllDevicesStatesCompletedEvent"] }

\* The answers of the fetch while refreshes are requested: nothing, or the
\* completion event.
RefreshBatches == {<< >>} \cup { <<event>> : event \in RefreshEvents }

\* Full refreshes requested by the interval and by the application, with
\* requests that fail, the completion event arriving or not, and time in
\* steps of 15 s.  The client has listed no device.
RefreshNext ==
    \/ RestConnect
    \/ \E r \in RefreshCalls : RefreshAllStates(r)
    \/ \E r \in RefreshCalls : RefreshTick(r)
    \/ \E r \in RefreshCalls : RefreshPosted(r)
    \/ \E r \in RefreshCalls : RefreshError(r)
    \/ \E r \in RefreshCalls : RefreshFallbackFires(r)
    \/ PollingTick
    \/ \E data \in RefreshBatches : FetchResponse(data)
    \/ RegisterResponse
    \/ RefetchResponse(<< >>)
    \/ RefetchError
    \/ \E d \in RefreshSteps : ExecAdvance(d)

SpecRefresh == InitExec /\ [][RefreshNext]_vars

\* Every request is answered or fails, every refreshDevices() call ends,
\* time passes and a timer that is due fires.  Nothing makes the remote
\* service send the completion event or the application call again.
RefreshFairness ==
    /\ WF_vars(\E r \in RefreshCalls : RefreshPosted(r) \/ RefreshError(r))
    /\ WF_vars(\E r \in RefreshCalls : RefreshFallbackFires(r))
    /\ WF_vars(RefetchResponse(<< >>) \/ RefetchError)
    /\ WF_vars(\E d \in RefreshSteps : ExecAdvance(d))

SpecRefreshLive == InitExec /\ [][RefreshNext]_vars /\ RefreshFairness

\* A listing call followed by full refreshes that the completion event
\* ends, on every listing of devices and sensors; no time passes.
ResyncNext ==
    \/ GetDevices
    \/ RestConnect
    \/ \E r \in RefreshCalls : RefreshAllStates(r)
    \/ \E r \in RefreshCalls : RefreshPosted(r)
    \/ PollingTick
    \/ \E data \in RefreshBatches : FetchResponse(data)
    \/ RegisterResponse
    \/ RefetchResponse(PolledStates)
    \/ RefetchError

SpecResync == InitRefetch /\ [][ResyncNext]_vars

\* State updates of one device, in steps of half the debounce delay.
DebounceSteps == {DEBOUNCE \div 2}

DeviceNext ==
    \/ \E newStates \in StateLists : UpdateStates(newStates)
    \/ PendingUpdateFires
    \/ \E d \in DebounceSteps : ExecAdvance(d)

InitDevice ==
    /\ \E values \in DeviceStates : DeviceInit(values)
    /\ TopoIdle /\ AuthInit /\ restorePc = "none" /\ endpoint = "direct" /\ ExecInit /\ RunInit /\ RefreshInit

SpecDevice == InitDevice /\ [][DeviceNext]_vars

\* Every Execution of up to MaxActions actions, notified every state with
\* every event.
NotifyNext ==
    \/ \E deviceURL \in ActionURLs : AddAction(deviceURL)
    \/ \E state \in ExecutionStates, event \in StateEvents : OnStateUpdate(state, event)

InitNotify ==
    RunInit /\ TopoIdle /\ AuthInit /\ restorePc = "none" /\ endpoint = "direct" /\ ExecInit /\ DeviceIdle /\ RefreshInit

SpecNotify == InitNotify /\ [][NotifyNext]_vars

\* Every Action of up to MaxCommands commands, given every array of
\* commands.
ActionNext ==
    \/ \E given \in CommandLists(MaxCommands) : AddCommands(given)

\* new Action(deviceURL, commands)
InitAction ==
    /\ commands \in CommandLists(MaxCommands)
    /\ actions = << >>
    /\ updates = NoUpdates
    /\ TopoIdle /\ AuthInit /\ restorePc = "none" /\ endpoint = "direct" /\ ExecInit /\ DeviceIdle /\ RefreshInit

SpecAction == InitAction /\ [][ActionNext]_vars



(***************************************************************************)
(* Claims about the session client.                                        *)
(***************************************************************************)
\* The authentication attempts whose transport calls are not over.
Outstanding == { a \in Promises : authState[a] \in InFlight }

\* C4: at most one authentication attempt is outstanding at any time.
C4_OneAttemptOutstanding == Cardinality(Outstanding) <= 1

\* C5: a request the caller wanted re-authenticated, issued on an
\* authenticated session and answered 401, is surfaced only after exactly
\* one retry.
C5_RetriedExactlyOnce ==
    \A r \in Requests :
        (reqPc[r] = "failed" /\ obs.expired[r] /\ obs.wanted[r]) => obs.retries[r] = 1

\* C6: the lockdown the N-th consecutive credential failure starts lasts
\* 60 * 2^(N-1) seconds.
C6_LockdownDoubles ==
    obs.failures > 0 =>
        obs.lockDuration = LOCKDOWN_INITIAL * 1000 * Pow2(obs.failures - 1)

\* C7: an authentication attempt made while the client is locked down
\* fails at once with the locked-out error and issues no transport call,
\* neither login nor token exchange.
C7_LockedAttemptFailsAtOnce ==
    \A a \in Promises :
        obs.startedLocked[a] =>
            /\ obs.calls[a] = 0
            /\ authState[a] = "rejected"
            /\ authError[a] = "locked"

C7_Witness ==
    /\ endpoint = "jwt"
    /\ \E a, b \in Promises :
          /\ obs.calls[b] >= 1 /\ lockTimer[b] # NoTimer
          /\ obs.startedLocked[a]

\* C8: after a successful authentication the next credential failure locks
\* the client down for exactly 60 seconds.
C8_SuccessResetsDelay ==
    (obs.succeeded /\ obs.failures = 1) => obs.lockDuration = LOCKDOWN_INITIAL * 1000

(***************************************************************************)
(* Claims about the execution tracker.                                     *)
(***************************************************************************)
\* C1: the pool never tracks more than 10 executions.
C1_PoolAtMostTen == Cardinality(executionPool) <= EXEC_QUEUE_MAX

\* C2: while 10 executions are tracked, no execute() call issues a remote
\* execution request.
C2_NoPostWhileFull ==
    [][\A c \in Callers :
          (callPc[c] # "post" /\ callPc'[c] = "post") =>
              Cardinality(executionPool) < EXEC_QUEUE_MAX]_vars

\* C3: an accepted execution that gets no last event stays tracked for
\* EXEC_TIMEOUT and no longer, and is notified TIMED_OUT and removed by its
\* timer exactly EXEC_TIMEOUT after acceptance, never before.
C3_TimedOutExactly ==
    \A id \in ExecIds :
        /\ id \in executionPool => track.age[id] <= EXEC_TIMEOUT
        /\ track.timedOutAt[id] # NoTimer =>
              /\ track.timedOutAt[id] = EXEC_TIMEOUT
              /\ track.removedBy[id] = "timeout"
              /\ id \notin executionPool
        /\ track.removedBy[id] = "timeout" => track.timedOutAt[id] = EXEC_TIMEOUT
        /\ (id \in issued /\ id \notin executionPool) =>
              track.removedBy[id] \in {"event", "timeout"}

C3_Witness ==
    \E id, other \in ExecIds :
        /\ track.removedBy[id] = "timeout"
        /\ track.removedBy[other] = "event"

(***************************************************************************)
(* Claims about the topology.                                              *)
(***************************************************************************)
TopLevel == { physicalDevices[k] : k \in 1..Len(physicalDevices) }

\* The last main record listed before position i, NoDevice if there is none.
LastMainBefore(i) ==
    Max({ j \in 1..(i - 1) : isMainDevice(setupData[j]) } \cup {NoDevice})

\* C9 as stated: every device of the returned top-level list has no parent.
C9_NoTopLevelParent ==
    topoPc = "done" => \A i \in TopLevel : parent[i] = NoDevice

\* C9 amended: a returned main device has no parent; a returned non-main
\* record has the last main device listed before it as parent, and none
\* only when no main device precedes it.
C9_TopLevelParent ==
    topoPc = "done" =>
        \A i \in TopLevel :
            /\ isMainDevice(setupData[i]) => parent[i] = NoDevice
            /\ ~isMainDevice(setupData[i]) => parent[i] = LastMainBefore(i)

C9_Witness ==
    /\ topoPc = "done"
    /\ \E i, j, k \in TopLevel :
          /\ isMainDevice(setupData[i])
          /\ ~isMainDevice(setupData[j]) /\ parent[j] = i
          /\ ~isMainDevice(setupData[k]) /\ parent[k] = NoDevice

\* How often position i occurs in sequence s.
Occurrences(s, i) == Cardinality({ k \in 1..Len(s) : s[k] = i })

RECURSIVE SumOver(_, _)
SumOver(S, f) ==
    IF S = {} THEN 0
    ELSE LET x == CHOOSE y \in S : TRUE IN f[x] + SumOver(S \ {x}, f)

\* The devices reached from set S through sensor lists, in at most n rounds.
RECURSIVE ReachedFrom(_, _)
ReachedFrom(S, n) ==
    IF n = 0 THEN S
    ELSE ReachedFrom(S \cup UNION { { sensors[j][k] : k \in 1..Len(sensors[j]) } : j \in S },
                     n - 1)

Reached == ReachedFrom(TopLevel, Len(setupData))

\* How often record i occurs at top level and in the reached sensor lists.
Listed(i) ==
    Occurrences(physicalDevices, i)
    + SumOver(Reached, [j \in Reached |-> Occurrences(sensors[j], i)])

\* lastDevice when record i is visited: the last record before position i
\* that was returned at top level, NoDevice if there is none.
LastTopBefore(i) ==
    Max({ j \in 1..(i - 1) : j \in TopLevel } \cup {NoDevice})

\* Record i is in the sensor list of owner, has it as parent, and is not
\* returned at top level.
AttachedTo(i, owner) ==
    /\ Occurrences(sensors[owner], i) = 1
    /\ parent[i] = owner
    /\ i \notin TopLevel

\* Record i is in no sensor list.
InNoSensorList(i) ==
    \A j \in 1..Len(setupData) : Occurrences(sensors[j], i) = 0

\* C11: a non-main record that lastDevice owns is attached to lastDevice;
\* otherwise one that lastMainDevice owns is attached to lastMainDevice;
\* a record neither owns is returned at top level, is the lastDevice of
\* the record after it, and is in no sensor list.
C11_OwnerLastDeviceFirst ==
    topoPc = "done" =>
        \A i \in 1..Len(setupData) :
            ~isMainDevice(setupData[i]) =>
                LET last == LastTopBefore(i)
                    main == LastMainBefore(i)
                IN  IF last # NoDevice /\ isSensorOf(setupData[i], setupData[last])
                    THEN AttachedTo(i, last)
                         /\ \A j \in 1..Len(setupData) : j # last => Occurrences(sensors[j], i) = 0
                    ELSE IF main # NoDevice /\ isSensorOf(setupData[i], setupData[main])
                         THEN AttachedTo(i, main)
                              /\ \A j \in 1..Len(setupData) : j # main => Occurrences(sensors[j], i) = 0
                         ELSE /\ Occurrences(physicalDevices, i) = 1
                              /\ InNoSensorList(i)
                              /\ i < Len(setupData) => LastTopBefore(i + 1) = i

\* A sensor that both lastDevice and a different lastMainDevice own.
C11_Witness ==
    /\ topoPc = "done"
    /\ \E i \in 1..Len(setupData) :
          /\ ~isMainDevice(setupData[i])
          /\ LastTopBefore(i) # NoDevice /\ LastMainBefore(i) # NoDevice
          /\ LastTopBefore(i) # LastMainBefore(i)
          /\ isSensorOf(setupData[i], setupData[LastTopBefore(i)])
          /\ isSensorOf(setupData[i], setupData[LastMainBefore(i)])
          /\ parent[i] = LastTopBefore(i)

\* C10: every input record occurs exactly once in the union of the returned
\* top-level devices and the sensor lists reachable from them.
C10_EveryRecordOnce ==
    topoPc = "done" => \A i \in 1..Len(setupData) : Listed(i) = 1

C10_Witness ==
    /\ topoPc = "done"
    /\ Len(setupData) = MaxDevices
    /\ \E i \in TopLevel : sensors[i] # << >>
    /\ \E j \in TopLevel : ~isMainDevice(setupData[j])

(***************************************************************************)
(* Claims about device state updates.                                      *)
(***************************************************************************)
\* C12 as stated: a burst of updateStates calls raises nothing before its
\* window has elapsed, and then exactly one 'states' notification with one
\* entry per name that was given a new or differing value, holding the
\* last such value; a burst of updates equal to the held values raises
\* nothing.
C12_OneNotificationPerBurst ==
    /\ seen.burst = "open" => seen.emitted = 0
    /\ seen.burst = "closed" =>
          IF DOMAIN seen.differing = {}
          THEN seen.emitted = 0
          ELSE /\ seen.emitted = 1
               /\ seen.payload = seen.differing
               /\ seen.sinceLast = DEBOUNCE

\* C12 amended: the names counted are those the device did not hold and
\* those it held with a type other than 10 and 11; a differing value for a
\* held state of type 10 or 11 is dropped and raises nothing.
C12_OneNotificationPerScalarChange ==
    /\ seen.burst = "open" => seen.emitted = 0
    /\ seen.burst = "closed" =>
          IF DOMAIN seen.changed = {}
          THEN seen.emitted = 0
          ELSE /\ seen.emitted = 1
               /\ seen.payload = seen.changed
               /\ seen.sinceLast = DEBOUNCE

\* A burst of two calls or more that changed two names, went back to the
\* first value of none, and held a dropped object-typed update.
C12_Witness ==
    /\ seen.burst = "closed"
    /\ seen.emitted = 1
    /\ Cardinality(DOMAIN seen.payload) >= 2
    /\ DOMAIN seen.differing # DOMAIN seen.changed
    /\ pendingUpdate = EmptyMap

(***************************************************************************)
(* Claims about the notifications of an execution.                         *)
(***************************************************************************)
\* C13: when the event of onStateUpdate carries a failureType and a
\* failedCommands list, every action whose deviceURL is in failedCommands
\* is notified FAILED and every other action COMPLETED.
C13_FailedCommandsSplit ==
    (/\ updates.called
     /\ ~updates.event.isNull
     /\ updates.event.failureType # ""
     /\ updates.event.hasFailedCommands) =>
        \A i \in 1..Len(updates.actions) :
            /\ actions[i] \in updates.event.failedCommands => updates.actions[i] = "FAILED"
            /\ actions[i] \notin updates.event.failedCommands =>
                  updates.actions[i] = "COMPLETED"

\* An execution of three actions notified IN_PROGRESS with a failure that
\* names the device of some of its actions and not of others.
C13_Witness ==
    /\ updates.called
    /\ updates.state = "IN_PROGRESS"
    /\ updates.event.failureType # "" /\ updates.event.hasFailedCommands
    /\ Len(updates.actions) = MaxActions
    /\ \E i, j \in 1..Len(updates.actions) :
          updates.actions[i] = "FAILED" /\ updates.actions[j] = "COMPLETED"

(***************************************************************************)
(* Claims about the end of tracking.                                       *)
(***************************************************************************)
\* C14: an ExecutionStateChangedEvent for a tracked id with
\* timeToNextState = -1 removes the entry, whatever its newState.
C14_LastEventRemoves ==
    [][\A data \in TrackedBatches :
          \/ \A i \in 1..Len(data) :
                (data[i].timeToNextState = -1 /\ data[i].execId \in executionPool)
                    => data[i].execId \notin executionPool'
          \/ ~FetchResponse(data)]_vars

\* An execution removed by an event whose newState is IN_PROGRESS.
C14_Witness ==
    \E id \in issued :
        /\ id \notin executionPool
        /\ track.removedBy[id] = "event"
        /\ <<id, "IN_PROGRESS">> \in track.removedAs

\* C15 as stated: no execution that an event has reported COMPLETED or
\* FAILED stays tracked.
C15_EndedNotTracked ==
    \A id \in executionPool : id \notin track.ended

\* The ids of the events of data that carry timeToNextState = -1.
LastEventIds(data) ==
    { data[i].execId : i \in { k \in 1..Len(data) : data[k].timeToNextState = -1 } }

\* C15 amended: an answer to a fetch removes exactly the tracked executions
\* it holds an event with timeToNextState = -1 for, so an event that
\* reports COMPLETED or FAILED with another marker leaves the execution
\* tracked; the timeout removes the execution it was armed for; nothing
\* else removes an execution.
C15_RemovedByLastEventOrTimeout ==
    [][/\ \A data \in TrackedBatches :
            \/ executionPool' = executionPool \ LastEventIds(data)
            \/ ~FetchResponse(data)
       /\ \A id \in ExecIds :
            ExecTimeoutFires(id) => executionPool' = executionPool \ {id}
       /\ \A id \in executionPool \ executionPool' :
            \/ ExecTimeoutFires(id)
            \/ \E data \in TrackedBatches : FetchResponse(data) /\ id \in LastEventIds(data)]_vars

\* An execution reported COMPLETED or FAILED that stayed tracked until its
\* timeout removed it.
C15_Witness ==
    \E id \in issued :
        /\ id \in track.ended
        /\ track.removedBy[id] = "timeout"
        /\ track.timedOutAt[id] = EXEC_TIMEOUT

C17_EveryEventDispatched == track.skipped = 0

\* C18: no failure inside a polling tick escapes as a rejected promise.
C18_NoFailureEscapes == ~track.escaped

\* The period the execution activity asks for.
DictatedPeriod == IF hasExecution(executionPool) THEN ExecPollingPeriod ELSE PollingPeriod

\* C19 as stated: a tick that finds a period other than the one the
\* execution activity asks for only switches the period and starts no
\* fetch; a tick that finds the right period and no fetch in flight starts
\* exactly one fetch.
C19_SwitchOrFetch ==
    [][PollingTick =>
          IF eventPollingPeriod # DictatedPeriod
          THEN eventPollingPeriod' = DictatedPeriod /\ fetching' = fetching
          ELSE (~fetchLock => fetching' = fetching + 1)]_vars

\* C19 amended: a tick that finds no execution tracked and a period other
\* than the idle one switches to the idle period, and the run of
\* pollingTask() that follows the switch at once starts one fetch unless
\* fetchLock is set; every other tick leaves the period as it is, also an
\* idle period while executions are tracked, and starts one fetch unless
\* fetchLock is set.
C19_SwitchThenFetch ==
    [][PollingTick =>
          /\ IF eventPollingPeriod # PollingPeriod /\ ~hasExecution(executionPool)
             THEN eventPollingPeriod' = PollingPeriod
             ELSE eventPollingPeriod' = eventPollingPeriod
          /\ fetching' = IF fetchLock THEN fetching ELSE fetching + 1]_vars

\* A tick has switched the period and started a fetch in the same run.
C19_Witness ==
    /\ track.switchedAndFetched
    /\ eventPollingPeriod = PollingPeriod

\* C20: at most one fetch is in flight; a tick that finds fetchLock set
\* starts none and leaves nothing behind that starts one later: a fetch
\* starts only in a run of pollingTask() that finds fetchLock clear.
C20_OneFetchInFlight ==
    /\ [](fetching <= 1)
    /\ [][/\ (PollingTick /\ fetchLock) =>
                UNCHANGED <<fetching, fetchPc, fetchLock, fetchTimer, listenerId>>
          /\ (fetching' > fetching) =>
                (/\ ~fetchLock
                 /\ \/ PollingTick
                    \/ RestConnect
                    \/ \E c \in Callers, id \in ExecIds : ExecResponse(c, id))]_vars

\* A tick has found fetchLock set while a fetch was in flight.
C20_Witness ==
    /\ track.heldTick
    /\ fetching = 1
    /\ fetchLock

(***************************************************************************)
(* Claims about the polling period and the session.                        *)
(***************************************************************************)
\* C21: whenever polling is enabled and an execution is tracked, the
\* polling period in force is the execution period.
C21_ActiveWhileTracked ==
    (pollingTaskId /\ hasExecution(executionPool)) => eventPollingPeriod = ExecPollingPeriod

\* C22: while the session is disconnected the polling period is 0, no
\* polling interval is armed and no fetch is started.
C22_DisabledWhileDisconnected ==
    /\ [](~connected => (eventPollingPeriod = 0 /\ ~pollingTaskId))
    /\ [][(~connected /\ ~connected') => fetching' <= fetching]_vars

(***************************************************************************)
(* Claims about the listener.                                              *)
(***************************************************************************)
\* C23: a fetch that fails with a 400 or 401 drops the listener and goes on
\* to register at once, so that the next fetch is made with a listener
\* registered after the failure; a fetch that fails otherwise keeps the
\* listener and holds the poller for 10 s, during which no fetch starts.
C23_FetchErrorHandled ==
    /\ [][\A error \in PollErrors :
             \/ ~FetchError(error)
             \/ IF error \in {"400", "401"}
                THEN /\ listenerId' = NoListener
                     /\ fetchPc' = "register"
                     /\ fetchLock'
                ELSE /\ listenerId' = listenerId
                     /\ fetchPc' = "fetchDelay"
                     /\ fetchTimer' = POLL_ERROR_DELAY
                     /\ fetchLock']_vars
    /\ [][(fetchPc = "fetchDelay" /\ fetchTimer > 0) =>
             /\ fetchPc' = "fetchDelay"
             /\ fetching' = fetching
             /\ fetchLock'
             /\ (listenerId' = listenerId \/ RestDisconnect)]_vars
    /\ [](fetchPc = "fetch" => fetchLock)

\* The 10 s after a fetch failed with another error are over and the
\* listener is the one the failed fetch used; it has been registered after
\* an earlier one was dropped.
C23_Witness ==
    /\ fetchPc = "fetchDelay"
    /\ fetchTimer = 0
    /\ listenerId = 2
    /\ connected

\* C24: a registration is issued only when no listener is held, at most
\* one fetch cycle and so one registration is in flight, and a fetch is
\* made with the listener registered last.
C24_OneListener ==
    /\ [](fetching <= 1)
    /\ [](fetchPc \in {"register", "registerDelay"} => listenerId = NoListener)
    /\ [][(fetching' > fetching /\ fetchPc' = "fetch") =>
             /\ fetching = 0
             /\ listenerId' # NoListener
             /\ listenerId' = nextListener' - 1]_vars
    /\ [][(listenerId' # listenerId /\ listenerId' # NoListener) =>
             /\ RegisterResponse
             /\ listenerId = NoListener
             /\ listenerId' = nextListener]_vars

\* The second listener is in use by a fetch in flight.
C24_Witness ==
    /\ fetchPc = "fetch"
    /\ listenerId = 2
    /\ fetching = 1

(***************************************************************************)
(* Claims about the full refresh.                                          *)
(***************************************************************************)
\* C25: whenever refreshLock is set it is cleared later, also when the
\* refresh request has failed.
C25_LockEventuallyCleared == refreshLock ~> ~refreshLock

\* The same for the requests that are answered: refreshLock is cleared
\* once no refresh request is pending or failed.
PostedRefreshClears ==
    refreshLock ~> (~refreshLock \/ \E r \in RefreshCalls : refreshPc[r] = "failed")

\* C26: a refresh tick or refreshAllStates() call that finds refreshLock
\* set issues no request and arms no timer, and two waits for the
\* completion of a refresh never overlap.
C26_LockedRefreshIsNoOp ==
    /\ [][\A r \in RefreshCalls :
             (refreshLock /\ (RefreshTick(r) \/ RefreshAllStates(r))) =>
                 UNCHANGED <<refreshPc, refreshTimer>>]_vars
    /\ [](\A r, q \in RefreshCalls :
             (refreshPc[r] \in {"post", "armed"} /\ refreshPc[q] \in {"post", "armed"})
                 => r = q)

(***************************************************************************)
(* Claims about structured states.                                         *)
(***************************************************************************)
\* C27: a state whose type is 10 or 11 is never added to the device nor
\* given another value by updateStates, is never put in the pending batch
\* and never appears in a 'states' notification, whether the device held
\* it or not.
C27_StructuredNeverStored ==
    /\ [][\A n \in StateNames :
             IsIgnoredType(StateTypes[n]) =>
                 /\ (n \in DOMAIN states') = (n \in DOMAIN states)
                 /\ (n \in DOMAIN states => states'[n] = states[n])
                 /\ n \notin DOMAIN pendingUpdate']_vars
    /\ [](\A n \in DOMAIN seen.payload : ~IsIgnoredType(StateTypes[n]))

(***************************************************************************)
(* Claims about the pairs given to updateStates.                           *)
(***************************************************************************)
\* The effect of one pair as the claim states it, on the states of the
\* device and on the names that entered the pending batch; with
\* exceptStructured, a held state of type 10 or 11 is left alone.
PairEffect(acc, newState, exceptStructured) ==
    LET name == newState.name
    IN  IF name \notin DOMAIN acc.states
        THEN [states  |-> Put(acc.states, name, [type |-> newState.type, value |-> newState.value]),
              batched |-> Put(acc.batched, name, newState)]
        ELSE IF /\ acc.states[name].value # newState.value
                /\ ~(exceptStructured /\ acc.states[name].type \in {OBJECT_TYPE, ARRAY_TYPE})
             THEN [states  |-> [acc.states EXCEPT ![name].value = newState.value],
                   batched |-> Put(acc.batched, name, newState)]
             ELSE acc

RECURSIVE PairEffects(_, _, _, _)
PairEffects(acc, newStates, i, exceptStructured) ==
    IF i > Len(newStates) THEN acc
    ELSE PairEffects(PairEffect(acc, newStates[i], exceptStructured), newStates, i + 1,
                     exceptStructured)

\* What the claim states of the call updateStates(newStates) made in the
\* current state, on the device d that results from it.
PairsDone(d, newStates, exceptStructured) ==
    \E e \in {PairEffects([states |-> states, batched |-> pendingUpdate],
                          newStates, 1, exceptStructured)} :
        /\ d.states = e.states
        /\ IF exceptStructured
           THEN d.pendingUpdate = e.batched
           ELSE /\ DOMAIN d.pendingUpdate \subseteq DOMAIN e.batched
                /\ \A n \in DOMAIN d.pendingUpdate : d.pendingUpdate[n] = e.batched[n]

\* C30 as stated: a pair given to updateStates adds the state when the
\* device has none of that name, stores the new value when it differs from
\* the held one, and otherwise leaves the states alone and adds nothing to
\* the pending batch; so does every pair of a longer call, in its turn.
C30_PairAddsOrUpdates ==
    /\ [][\A newState \in NewStates :
             \/ ~UpdateStates(<<newState>>)
             \/ PairsDone([states |-> states', pendingUpdate |-> pendingUpdate'],
                          <<newState>>, FALSE)]_vars
    /\ [](\A newStates \in StateLists :
             PairsDone(updateStates(Device, newStates), newStates, FALSE))

\* C30 amended: the same, but a pair that names a held state of type 10 or
\* 11 leaves the states alone and adds nothing to the pending batch,
\* whatever its value; the pairs that add or update enter the pending
\* batch under their name.
C30_PairAddsOrUpdatesScalar ==
    /\ [][\A newState \in NewStates :
             \/ ~UpdateStates(<<newState>>)
             \/ PairsDone([states |-> states', pendingUpdate |-> pendingUpdate'],
                          <<newState>>, TRUE)]_vars
    /\ [](\A newStates \in StateLists :
             PairsDone(updateStates(Device, newStates), newStates, TRUE))

\* One burst has added a state, given a held state another value and
\* dropped the differing value of a held state of type 10.
C30_Witness ==
    /\ seen.burst = "open"
    /\ "core:ManufacturerSettingsState" \in DOMAIN seen.differing \ DOMAIN seen.changed
    /\ Cardinality(DOMAIN pendingUpdate) >= 2
    /\ \E n \in DOMAIN pendingUpdate : states[n].value = pendingUpdate[n].value

ListedURLs(data) == { data[i].deviceURL : i \in 1..Len(data) }

\* C28: a listing call never gives a registered deviceURL another Device:
\* the registry keeps for it the Device of the first call that listed it,
\* and the only entries a call adds are those of the listed deviceURLs the
\* registry did not hold, each with the Device this call has created.
C28_KnownDevicesKept ==
    [][\A u \in DeviceURLs :
          IF devices[u] # NoDevice
          THEN devices'[u] = devices[u]
          ELSE IF u \in ListedURLs(setupData')
               THEN /\ devices'[u] > created
                    /\ devices'[u] <= created'
                    /\ setupData'[devices'[u] - created].deviceURL = u
               ELSE devices'[u] = NoDevice]_vars

\* After a listing call repeated, the registry holds for a deviceURL that
\* is listed again the Device of an earlier call, and for another one a
\* Device of the last call.
C28_Witness ==
    /\ topoPc = "done"
    /\ \E u, v \in ListedURLs(setupData) :
          /\ devices[u] # NoDevice
          /\ devices[u] <= created - Len(setupData)
          /\ devices[v] > created - Len(setupData)

(***************************************************************************)
(* Claims about the return to the idle period.                             *)
(***************************************************************************)
\* C31: when no execution is tracked any more and the execution period is
\* in force on a connected client, the period becomes the idle one, unless
\* the connection is lost or an execution is accepted first; the tick that
\* finds the pool empty makes the change.
C31_ReturnsToIdle ==
    /\ (connected /\ executionPool = {} /\ eventPollingPeriod = ExecPollingPeriod)
          ~> (eventPollingPeriod = PollingPeriod \/ ~connected \/ executionPool # {})
    /\ [][(PollingTick /\ executionPool = {} /\ eventPollingPeriod # PollingPeriod)
             => (eventPollingPeriod' = PollingPeriod /\ pollingTaskId')]_vars

\* The idle period is in force on a connected client whose executions have
\* all been removed.
C31_Witness ==
    /\ connected
    /\ issued # {}
    /\ executionPool = {}
    /\ eventPollingPeriod = PollingPeriod
    /\ pollingTaskId

(***************************************************************************)
(* Claims about the release of fetchLock.                                  *)
(***************************************************************************)
\* C32: fetchLock is set only while a fetch cycle runs: whatever the
\* outcome of the cycle, the lock is released when it ends, so that no
\* state has the lock set with no fetchEvents() call under way.
C32_LockReleasedAfterCycle == fetchLock => fetching > 0

(***************************************************************************)
(* Claims about the end of a lockdown.                                     *)
(***************************************************************************)
\* A lockdown has been started and is over, and the client holds no
\* session and has no authentication attempt under way.
AfterLockdown ==
    /\ obs.failures > 0
    /\ ~isLockedDown
    /\ AuthArmed = {}
    /\ ~isAuthenticated
    /\ Outstanding = {}

\* C33: once the lockdown delay has elapsed, the next request that needs a
\* session starts an authentication attempt that calls the remote service,
\* whether or not requests were made during the lockdown.
C33_LockdownIsTemporary ==
    [][\A r \in Requests, reconnect \in BOOLEAN :
          \/ ~AfterLockdown
          \/ ~Request(r, reconnect, MaxAttempts)
          \/ /\ nextPromise' = nextPromise + 1
             /\ connectPromise' = nextPromise
             /\ obs'.calls[nextPromise] >= 1]_vars

(***************************************************************************)
(* Claims about the notifications of the session client.                   *)
(***************************************************************************)
\* C38: the connect and disconnect notifications alternate, starting with
\* connect: connect is emitted only when the session goes from not
\* authenticated to authenticated, disconnect only when it goes back, and
\* the session changes in no other way.
C38_NotificationsAlternate ==
    /\ [](~obs.emitBroken)
    /\ [](isAuthenticated <=> lastEmitted = "connect")

(***************************************************************************)
(* Claims about the devices a listing call returns.                        *)
(***************************************************************************)
\* The Device the last listing call created for the record at position i.
CreatedFor(i) == created - Len(setupData) + i

\* C34: every Device a listing call returns is the Device the registry
\* holds for its deviceURL, after the first call and after every later
\* one, so that the events of the deviceURL reach the returned Device.
C34_ReturnedAreRegistered ==
    topoPc = "done" =>
        \A k \in 1..Len(physicalDevices) :
            devices[setupData[physicalDevices[k]].deviceURL] = CreatedFor(physicalDevices[k])

(***************************************************************************)
(* Claims about the devices a full re-fetch refreshes.                     *)
(***************************************************************************)
\* C35: refreshDevices() gives the fresh states to every registered device
\* of the fetched listing, the devices attached as sensors included.
C35_EveryListedDeviceRefreshed ==
    [][(\/ ~RefetchResponse(PolledStates))
       \/ track'.refreshed = { u \in ListedURLs(setupData) : devices'[u] # NoDevice }]_vars

\* C36: the fallback timer of a call whose completion event was received
\* leaves alone the refreshLock a later call has set: while that later call
\* still waits for its answer or for its own timer, the earlier timer
\* clears nothing and calls no refreshDevices().
C36_FallbackOfOwnRequestOnly ==
    [][\A r, q \in RefreshCalls :
          \/ ~(/\ r # q
               /\ r \in track.completed
               /\ refreshLock
               /\ track.lockedBy = q
               /\ refreshPc[q] = "post" \/ (refreshPc[q] = "armed" /\ refreshTimer[q] > 0))
          \/ ~RefreshFallbackFires(r)
          \/ UNCHANGED <<refreshLock, refetching>>]_vars

(***************************************************************************)
(* Claims about the commands of an action.                                 *)
(***************************************************************************)
\* C39: after addCommands(given) every command given is in the action
\* under its name with the parameters given for that name: replaced when
\* the action had the name, appended otherwise.
C39_GivenCommandsMerged ==
    [][\A given \in CommandLists(MaxCommands) :
          \/ ~AddCommands(given)
          \/ \A i \in 1..Len(given) :
                (\A k \in (i + 1)..Len(given) : given[k].name # given[i].name) =>
                    \E j \in 1..Len(commands') :
                        /\ commands'[j].name = given[i].name
                        /\ commands'[j].parameters = given[i].parameters]_vars

(***************************************************************************)
(* Claims about executions that are no longer tracked.                     *)
(***************************************************************************)
\* What is on record of the notifications given to execution id.
NotifiedOf(t, id) ==
    [ removedBy  |-> t.removedBy[id],
      timedOutAt |-> t.timedOutAt[id],
      ended      |-> id \in t.ended,
      removedAs  |-> { p \in t.removedAs : p[1] = id } ]

=============================================================================
